---------------------------- MODULE Spec2Model ----------------------------
(***************************************************************************)
(* A model of pyrsa/rdm/calc.py: the calculation of representational       *)
(* dissimilarity matrices (RDMs) from datasets.                             *)
(*                                                                         *)
(* Numbers are exact rationals <<n, d>> (d > 0, lowest terms).  The        *)
(* transcendental steps (sqrt, log) are kept as uninterpreted terms, so    *)
(* two results are equal in the model only when the code performs the      *)
(* same arithmetic on the same operands.                                   *)
(***************************************************************************)
EXTENDS Integers, Sequences, FiniteSets, TLC

VARIABLES
    dataset,   \* the dataset object (or collection) the caller holds
    noise,     \* the noise object the caller holds
    orig,      \* the dataset as it was constructed (history)
    call,      \* the last call: its name and scalar arguments
    result     \* what the last call returned or raised

vars == <<dataset, noise, orig, call, result>>

(***************************************************************************)
(* Bounds of the model.                                                    *)
(***************************************************************************)
MaxObs == 4      \* observations (rows) of a dataset or matrix
MaxColl == 2     \* datasets in a collection

\* Python's None, for an object and for a descriptor name
None == [kind |-> "None"]
NoKey == "None"

\* before the first call
NoCall == [fn |-> "init"]
NoResult == [status |-> "none"]

(***************************************************************************)
(* Exact rational arithmetic.                                              *)
(***************************************************************************)
Abs(x) == IF x < 0 THEN -x ELSE x

RECURSIVE GCD(_, _)
GCD(a, b) == IF b = 0 THEN a ELSE GCD(b, a % b)

Norm(n, d) ==
    LET s == IF d < 0 THEN -1 ELSE 1
        g == GCD(Abs(n), Abs(d))
    IN  <<(s * n) \div g, (s * d) \div g>>

Q(n) == <<n, 1>>
RAdd(a, b) == Norm(a[1] * b[2] + b[1] * a[2], a[2] * b[2])
RSub(a, b) == Norm(a[1] * b[2] - b[1] * a[2], a[2] * b[2])
RMul(a, b) == Norm(a[1] * b[1], a[2] * b[2])
RDiv(a, b) == Norm(a[1] * b[2], a[2] * b[1])
RSign(a) == IF a[1] > 0 THEN 1 ELSE IF a[1] < 0 THEN -1 ELSE 0
RAbs(a) == <<Abs(a[1]), a[2]>>

(***************************************************************************)
(* Scalars: a rational <<n, d>> (length 2), or a term <<op, x, y>> (length *)
(* 3) for what the model does not evaluate: sqrt, log, nan, and the        *)
(* arithmetic on such terms.                                               *)
(***************************************************************************)
IsQ(a) == Len(a) = 2
Term(op, x, y) == <<op, x, y>>
NaN == Term("nan", <<>>, <<>>)
Add(a, b) == IF IsQ(a) /\ IsQ(b) THEN RAdd(a, b) ELSE Term("add", a, b)
Sub(a, b) == IF IsQ(a) /\ IsQ(b) THEN RSub(a, b) ELSE Term("sub", a, b)
Mul(a, b) == IF IsQ(a) /\ IsQ(b) THEN RMul(a, b) ELSE Term("mul", a, b)
Div(a, b) ==
    IF IsQ(a) /\ IsQ(b) THEN (IF b[1] = 0 THEN NaN ELSE RDiv(a, b))
    ELSE Term("div", a, b)
Sqrt(a) == Term("sqrt", a, <<>>)
Log(a) == Term("log", a, <<>>)

\* the sum of a sequence, accumulated from the left, from 0
RECURSIVE SumFrom(_, _, _)
SumFrom(s, i, acc) == IF i > Len(s) THEN acc ELSE SumFrom(s, i + 1, Add(acc, s[i]))
Sum(s) == SumFrom(s, 1, Q(0))

\* np.mean: nan for no elements
Mean(s) == IF Len(s) = 0 THEN NaN ELSE Div(Sum(s), Q(Len(s)))

(***************************************************************************)
(* Vectors and matrices (sequences of rows).                               *)
(***************************************************************************)
VSub(u, v) == [m \in 1..Len(u) |-> Sub(u[m], v[m])]
VMul(u, v) == [m \in 1..Len(u) |-> Mul(u[m], v[m])]
Dot(u, v) == Sum(VMul(u, v))
MatVec(A, v) == [r \in 1..Len(A) |-> Dot(A[r], v)]
QRow(row) == [m \in 1..Len(row) |-> Q(row[m])]
QMat(mat) == [r \in 1..Len(mat) |-> QRow(mat[r])]
Column(rows, c) == [r \in 1..Len(rows) |-> rows[r][c]]

\* an n x m array: numpy keeps the shape beside the rows, so a 0 x m array
\* still knows m
Arr(rows, m) == [shape |-> <<Len(rows), m>>, rows |-> rows]
Vec(vals) == [shape |-> <<Len(vals)>>, rows |-> vals]

\* the running index (from 1) of the pair (i, j), i < j, among the pairs of
\* 1..n enumerated with i increasing and, for each i, j increasing
PairIndex(i, j, n) ==
    Cardinality({p \in (1..n) \X (1..n) :
                    /\ p[1] < p[2]
                    /\ (p[1] < i \/ (p[1] = i /\ p[2] <= j))})

(***************************************************************************)
(* _calc_pairwise_differences                                              *)
(***************************************************************************)
ZeroRows(k, m) == [r \in 1..k |-> [c \in 1..m |-> Q(0)]]

\* diff[k] = ...: numpy raises IndexError when k is outside the array
SetRow(st, row) ==
    IF st.err \/ st.k + 1 > Len(st.diff) THEN [st EXCEPT !.err = TRUE]
    ELSE [diff |-> [st.diff EXCEPT ![st.k + 1] = row], k |-> st.k + 1, err |-> FALSE]

\* a slip the pair loop could have: the difference taken the other way round
PairLoopJ_swapped(rows, i, j, st) ==
    LET RECURSIVE Go(_, _)
        Go(jj, s) == IF jj > Len(rows) THEN s
                     ELSE Go(jj + 1, SetRow(s, VSub(rows[jj], rows[i])))
    IN  Go(j, st)

\* the inner loop  for j in range(i+1, n): diff[k] = m[i] - m[j]; k += 1
RECURSIVE PairLoopJ(_, _, _, _)
PairLoopJ(rows, i, j, st) ==
    IF j > Len(rows) THEN st
    ELSE PairLoopJ(rows, i, j + 1, SetRow(st, VSub(rows[i], rows[j])))

\* the outer loop  for i in range(n)
RECURSIVE PairLoopI(_, _, _)
PairLoopI(rows, i, st) ==
    IF i > Len(rows) THEN st
    ELSE PairLoopI(rows, i + 1, PairLoopJ(rows, i, i + 1, st))

\* n, m = measurements.shape; diff = np.zeros((int(n * (n - 1) / 2), m));
\* k = 0; the loops; return diff
_calc_pairwise_differences(measurements) ==
    LET n == measurements.shape[1]
        m == measurements.shape[2]
        size == (n * (n - 1)) \div 2
        st == PairLoopI(measurements.rows, 1,
                        [diff |-> ZeroRows(size, m), k |-> 0, err |-> FALSE])
    IN  IF st.err THEN [status |-> "IndexError", value |-> None]
        ELSE [status |-> "ok", value |-> [shape |-> <<size, m>>, rows |-> st.diff]]

\* callers use the array; the function cannot fail on a 2-D input
PD(measurements) == _calc_pairwise_differences(measurements).value

(***************************************************************************)
(* The dataset container (pyrsa.data) and the RDM container               *)
(* (pyrsa.rdm.rdms) are collaborators of this module; their operations are *)
(* modelled from their interface.                                          *)
(*                                                                         *)
(* A dataset is [kind, measurements (rows of numbers), n_channel,          *)
(* obs_descriptors (key -> one label per observation), descriptors].       *)
(* Labels are integers, so that sorting and np.unique are defined.         *)
(***************************************************************************)
Range(f) == {f[x] : x \in DOMAIN f}
SeqsUpTo(S, n) == UNION {[1..k -> S] : k \in 0..n}
Injective(f) == \A x, y \in DOMAIN f : x # y => f[x] # f[y]

Dataset(measurements, n_channel, obs_descriptors) ==
    [kind |-> "Dataset", measurements |-> measurements, n_channel |-> n_channel,
     obs_descriptors |-> obs_descriptors, descriptors |-> [session |-> 1]]

\* how often label v occurs among the first p labels
Occurrences(labels, v, p) == Cardinality({q \in 1..p : labels[q] = v})

\* the increasing enumeration of a finite set of integers
RECURSIVE SortedSeq(_)
SortedSeq(S) ==
    IF S = {} THEN <<>>
    ELSE LET lo == CHOOSE x \in S : \A y \in S : x <= y
         IN  <<lo>> \o SortedSeq(S \ {lo})

\* np.unique(labels): the sorted distinct values
np_unique(labels) == SortedSeq(Range(labels))

\* the distinct values in order of first occurrence
RECURSIVE UniqueInOrder(_)
UniqueInOrder(labels) ==
    IF labels = <<>> THEN <<>>
    ELSE LET rest == UniqueInOrder(SubSeq(labels, 1, Len(labels) - 1))
             last == labels[Len(labels)]
         IN  IF last \in Range(rest) THEN rest ELSE Append(rest, last)

\* the indices (increasing) of the observations whose label is in vals
RECURSIVE IndicesIn(_, _, _)
IndicesIn(labels, vals, i) ==
    IF i > Len(labels) THEN <<>>
    ELSE (IF labels[i] \in vals THEN <<i>> ELSE <<>>) \o IndicesIn(labels, vals, i + 1)

\* the dataset restricted to, and ordered by, the index sequence idx
TakeObs(ds, idx) ==
    [ds EXCEPT !.measurements = [r \in 1..Len(idx) |-> ds.measurements[idx[r]]],
               !.obs_descriptors =
                   [key \in DOMAIN ds.obs_descriptors |->
                       [r \in 1..Len(idx) |-> ds.obs_descriptors[key][idx[r]]]]]

\* dataset.subset_obs(by, value): a new dataset of the observations whose
\* descriptor `by` is (one of) value
subset_obs(ds, by, vals) == TakeObs(ds, IndicesIn(ds.obs_descriptors[by], vals, 1))

\* dataset.sort_by(by): reorders the dataset itself, by the descriptor
\* (stable)
sort_by(ds, by) ==
    LET labels == ds.obs_descriptors[by]
        RECURSIVE Order(_)
        Order(vs) == IF vs = <<>> THEN <<>>
                     ELSE IndicesIn(labels, {vs[1]}, 1) \o Order(Tail(vs))
    IN  TakeObs(ds, Order(np_unique(labels)))

\* the mean of the rows idx of a matrix, channel by channel
MeanRows(meas, idx, m) ==
    [c \in 1..m |-> Mean([r \in 1..Len(idx) |-> meas[idx[r]][c]])]

\* average_dataset_by(dataset, by): one mean row per distinct value of the
\* descriptor, in the order the values first occur
average_dataset_by(ds, by) ==
    LET labels == ds.obs_descriptors[by]
        uniq == UniqueInOrder(labels)
    IN  [measurements |->
             Arr([u \in 1..Len(uniq) |->
                     MeanRows(ds.measurements, IndicesIn(labels, {uniq[u]}, 1),
                              ds.n_channel)], ds.n_channel),
         desc |-> uniq]

\* the RDMs constructor: stores what it is given; an RDM-level descriptor
\* holds one value per RDM
RDMs(dissimilarities, measure, rdm_descriptors) ==
    [dissimilarities |-> dissimilarities,
     dissimilarity_measure |-> measure,
     rdm_descriptors |-> [key \in DOMAIN rdm_descriptors |-> <<rdm_descriptors[key]>>],
     descriptors |-> << >>,
     pattern_descriptors |-> << >>,
     shares_descriptors |-> FALSE]

Ok(rdm, ds, ns) == [status |-> "ok", rdm |-> rdm, dataset |-> ds, noise |-> ns]
Raise(err, ds, ns) == [status |-> err, rdm |-> None, dataset |-> ds, noise |-> ns]

\* rdm.pattern_descriptors[key] = desc, rdm.descriptors[key] = value
SetItem(f, key, val) == [k \in DOMAIN f \cup {key} |-> IF k = key THEN val ELSE f[k]]

(***************************************************************************)
(* _parse_input                                                            *)
(***************************************************************************)
_parse_input(ds, descriptor) ==
    IF descriptor = NoKey
    THEN [measurements |-> Arr(ds.measurements, ds.n_channel),
          desc |-> [i \in 1..Len(ds.measurements) |-> i - 1],
          descriptor |-> "pattern"]
    ELSE LET avg == average_dataset_by(ds, descriptor)
         IN  [measurements |-> avg.measurements, desc |-> avg.desc,
              descriptor |-> descriptor]

(***************************************************************************)
(* calc_rdm_euclid                                                         *)
(***************************************************************************)
\* np.einsum('ij,ij->i', a, b): the row-wise inner products
EinsumRows(a, b) == [k \in 1..Len(a) |-> Dot(a[k], b[k])]

VDivScalar(v, n) == [k \in 1..Len(v) |-> Div(v[k], Q(n))]

\* a slip: the sum of squares left undivided by the number of channels
EuclidValues_undivided(measurements) ==
    LET diff == PD(measurements)
    IN  Vec(EinsumRows(diff.rows, diff.rows))

\* diff = _calc_pairwise_differences(measurements)
\* rdm = np.einsum('ij,ij->i', diff, diff) / measurements.shape[1]
EuclidValues(measurements) ==
    LET diff == PD(measurements)
    IN  Vec(VDivScalar(EinsumRows(diff.rows, diff.rows), measurements.shape[2]))

\* a slip: the estimator sorting the dataset it is given, as the fold-based
\* estimators do
calc_rdm_euclid_sorting(ds, descriptor) ==
    LET p == _parse_input(ds, descriptor)
        rdm == RDMs(<<EuclidValues(p.measurements)>>, "euclidean", ds.descriptors)
    IN  Ok([rdm EXCEPT !.pattern_descriptors = SetItem(@, p.descriptor, p.desc)],
           IF descriptor = NoKey THEN ds ELSE sort_by(ds, descriptor), None)

calc_rdm_euclid(ds, descriptor) ==
    LET p == _parse_input(ds, descriptor)
        rdm == RDMs(<<EuclidValues(p.measurements)>>, "euclidean", ds.descriptors)
    IN  Ok([rdm EXCEPT !.pattern_descriptors = SetItem(@, p.descriptor, p.desc)],
           ds, None)

(***************************************************************************)
(* _check_noise                                                            *)
(*                                                                         *)
(* A noise object is None, a 2-D ndarray [kind, ndim, shape, rows], a 3-D  *)
(* ndarray / list / tuple [kind, items], a dict [kind, keys, items] (keys  *)
(* in insertion order) or a scalar.                                        *)
(***************************************************************************)
Matrix(rows, r, c) == [kind |-> "ndarray", ndim |-> 2, shape |-> <<r, c>>, rows |-> rows]
IsMatrix(ns) == ns.kind = "ndarray" /\ ns.ndim = 2

\* the noise objects the specifications draw from
Eye1 == Matrix(QMat(<<<<1>>>>), 1, 1)
Eye2 == Matrix(QMat(<<<<1, 0>>, <<0, 1>>>>), 2, 2)
Prec2 == Matrix(QMat(<<<<2, 1>>, <<1, 1>>>>), 2, 2)
Wide == Matrix(QMat(<<<<1, 0>>>>), 1, 2)
Scalar == [kind |-> "scalar"]
Eye2Half == Matrix(QMat(<<<<1, 0>>, <<0, 3>>>>), 2, 2)

\* isinstance(noise, Iterable): everything with __iter__; a dict has it too
IsIterable(ns) == ns.kind \in {"ndarray", "list", "tuple", "dict"}

\* len(noise)
NoiseLen(ns) == Len(ns.items)

\* noise[i], i counted from 0: by position, and for a dict by key
HasItem(ns, i) ==
    IF ns.kind = "dict" THEN \E p \in 1..Len(ns.keys) : ns.keys[p] = i
    ELSE i < Len(ns.items)
ItemPos(ns, i) ==
    IF ns.kind = "dict" THEN CHOOSE p \in 1..Len(ns.keys) : ns.keys[p] = i
    ELSE i + 1
GetItem(ns, i) == ns.items[ItemPos(ns, i)]

\* noise[i] = value
PutItem(ns, i, val) ==
    IF ns.kind = "dict" /\ ~HasItem(ns, i)
    THEN [ns EXCEPT !.keys = Append(@, i), !.items = Append(@, val)]
    ELSE [ns EXCEPT !.items[ItemPos(ns, i)] = val]

RECURSIVE _check_noise(_, _)
RECURSIVE CheckNoiseLoop(_, _, _)
RECURSIVE CheckNoiseKeys(_, _, _)

\* for key in noise.keys(): noise[key] = _check_noise(noise[key], n_channel)
CheckNoiseKeys(ns, p, n_channel) ==
    IF p > Len(ns.keys) THEN [status |-> "ok", noise |-> ns]
    ELSE LET r == _check_noise(ns.items[p], n_channel)
         IN  IF r.status # "ok" THEN [status |-> r.status, noise |-> ns]
             ELSE CheckNoiseKeys([ns EXCEPT !.items[p] = r.noise], p + 1, n_channel)

\* for i in range(len(noise)): noise[i] = _check_noise(noise[i], n_channel)
\* a dict without the key i raises KeyError at the read; a tuple raises
\* TypeError at the assignment
CheckNoiseLoop(ns, i, n_channel) ==
    IF i >= NoiseLen(ns) THEN [status |-> "ok", noise |-> ns]
    ELSE IF ~HasItem(ns, i) THEN [status |-> "KeyError", noise |-> ns]
    ELSE LET r == _check_noise(GetItem(ns, i), n_channel)
         IN  IF r.status # "ok" THEN [status |-> r.status, noise |-> ns]
             ELSE IF ns.kind = "tuple" THEN [status |-> "TypeError", noise |-> ns]
             ELSE CheckNoiseLoop(PutItem(ns, i, r.noise), i + 1, n_channel)

\* the branches in the order of lines 623 to 634; the dict branch comes
\* after the Iterable one
_check_noise(ns, n_channel) ==
    IF ns.kind = "None" THEN [status |-> "ok", noise |-> ns]
    ELSE IF IsMatrix(ns)
    THEN (IF ns.shape = <<n_channel, n_channel>> THEN [status |-> "ok", noise |-> ns]
          ELSE [status |-> "AssertionError_shape", noise |-> ns])
    ELSE IF IsIterable(ns) THEN CheckNoiseLoop(ns, 0, n_channel)
    ELSE IF ns.kind = "dict" THEN CheckNoiseKeys(ns, 1, n_channel)
    ELSE [status |-> "ValueError_noise", noise |-> ns]

(***************************************************************************)
(* calc_rdm_mahalanobis                                                    *)
(***************************************************************************)
\* diff2 = (noise @ diff.T).T
\* rdm = np.einsum('ij,ij->i', diff, diff2) / measurements.shape[1]
MahalanobisValues(measurements, ns) ==
    LET diff == PD(measurements)
        diff2 == [k \in 1..Len(diff.rows) |-> MatVec(ns.rows, diff.rows[k])]
    IN  Vec(VDivScalar(EinsumRows(diff.rows, diff2), measurements.shape[2]))

\* a slip: no branch for noise None, the matrix product applied to it
calc_rdm_mahalanobis_nobranch(ds, descriptor, ns) ==
    LET p == _parse_input(ds, descriptor)
        chk == _check_noise(ns, ds.n_channel)
        rdm == RDMs(<<MahalanobisValues(p.measurements, chk.noise)>>,
                    "Mahalanobis", ds.descriptors)
    IN  IF chk.status # "ok" THEN Raise(chk.status, ds, chk.noise)
        ELSE IF ~IsMatrix(chk.noise) THEN Raise("TypeError", ds, chk.noise)
        ELSE Ok([rdm EXCEPT !.pattern_descriptors = SetItem(@, p.descriptor, p.desc),
                            !.descriptors = SetItem(@, "noise", chk.noise)],
                ds, chk.noise)

\* with noise None the euclidean estimator is called; otherwise the noise is
\* validated and must then be one 2-D array for the matrix product and the
\* two-index einsum to accept it
calc_rdm_mahalanobis(ds, descriptor, ns) ==
    IF ns.kind = "None" THEN calc_rdm_euclid(ds, descriptor)
    ELSE LET p == _parse_input(ds, descriptor)
             chk == _check_noise(ns, ds.n_channel)
             rdm == RDMs(<<MahalanobisValues(p.measurements, chk.noise)>>,
                         "Mahalanobis", ds.descriptors)
         IN  IF chk.status # "ok" THEN Raise(chk.status, ds, chk.noise)
             ELSE IF ~IsMatrix(chk.noise) THEN Raise("ValueError_operand", ds, chk.noise)
             ELSE Ok([rdm EXCEPT !.pattern_descriptors = SetItem(@, p.descriptor, p.desc),
                                 !.descriptors = SetItem(@, "noise", chk.noise)],
                     ds, chk.noise)

(***************************************************************************)
(* calc_rdm_correlation                                                    *)
(***************************************************************************)
\* ma = ma - ma.mean(axis=1, keepdims=True)
CenterRows(rows) ==
    [r \in 1..Len(rows) |-> [c \in 1..Len(rows[r]) |-> Sub(rows[r][c], Mean(rows[r]))]]

\* ma /= np.sqrt(np.einsum('ij,ij->i', ma, ma))[:, None]
NormalizeRows(rows) ==
    [r \in 1..Len(rows) |->
        [c \in 1..Len(rows[r]) |-> Div(rows[r][c], Sqrt(Dot(rows[r], rows[r])))]]

\* rdm = 1 - np.einsum('ik,jk', ma, ma): one entry for every ordered pair of
\* rows, a square array
CorrelationValues(measurements) ==
    LET ma == NormalizeRows(CenterRows(measurements.rows))
        n == Len(ma)
    IN  [shape |-> <<n, n>>,
         rows |-> [i \in 1..n |-> [j \in 1..n |-> Sub(Q(1), Dot(ma[i], ma[j]))]]]

calc_rdm_correlation(ds, descriptor) ==
    LET p == _parse_input(ds, descriptor)
        rdm == RDMs(<<CorrelationValues(p.measurements)>>, "correlation", ds.descriptors)
    IN  Ok([rdm EXCEPT !.pattern_descriptors = SetItem(@, p.descriptor, p.desc)],
           ds, None)

(***************************************************************************)
(* calc_rdm_poisson                                                        *)
(***************************************************************************)
\* (measurements + prior_lambda * prior_weight) / (1 + prior_weight)
Shrink(measurements, prior_lambda, prior_weight) ==
    [measurements EXCEPT !.rows =
        [r \in 1..Len(@) |-> [c \in 1..Len(@[r]) |->
            Div(Add(@[r][c], Mul(prior_lambda, prior_weight)), Add(Q(1), prior_weight))]]]

\* np.log(measurements)
LogArr(measurements) ==
    [measurements EXCEPT !.rows =
        [r \in 1..Len(@) |-> [c \in 1..Len(@[r]) |-> Log(@[r][c])]]]

\* np.einsum('ij,ij->i', a, b) where the two arrays may differ in rows: a
\* dimension of size one is broadcast, any other mismatch is refused
EinsumFits(a, b) == Len(a) = Len(b) \/ Len(a) = 1 \/ Len(b) = 1
EinsumRowsB(a, b) ==
    LET n == IF Len(a) = 1 THEN Len(b) ELSE Len(a)
    IN  [k \in 1..n |-> Dot(IF Len(a) = 1 THEN a[1] ELSE a[k],
                            IF Len(b) = 1 THEN b[1] ELSE b[k])]

\* diff = _calc_pairwise_differences(lin)
\* diff_log = _calc_pairwise_differences(np.log(logarg))
\* rdm = np.einsum('ij,ij->i', diff, diff_log) / lin.shape[1]
PoissonValues(lin, logarg) ==
    LET diff == PD(lin)
        diff_log == PD(LogArr(logarg))
    IN  Vec(VDivScalar(EinsumRowsB(diff.rows, diff_log.rows), lin.shape[2]))

calc_rdm_poisson(ds, descriptor, prior_lambda, prior_weight) ==
    LET p == _parse_input(ds, descriptor)
        measurements == Shrink(p.measurements, prior_lambda, prior_weight)
        rdm == RDMs(<<PoissonValues(measurements, measurements)>>, "poisson",
                    ds.descriptors)
    IN  Ok([rdm EXCEPT !.pattern_descriptors = SetItem(@, p.descriptor, p.desc)],
           ds, None)

(***************************************************************************)
(* _gen_default_cv_descriptor                                              *)
(***************************************************************************)
CountOf(labels, v) == Len(IndicesIn(labels, {v}, 1))

\* a slip: the repeats numbered from 1
AssignArange_from1(cv, labels, v) ==
    LET idx == IndicesIn(labels, {v}, 1)
    IN  [p \in 1..Len(cv) |->
            IF labels[p] = v THEN (CHOOSE r \in 1..Len(idx) : idx[r] = p) ELSE cv[p]]

\* cv_descriptor[desc == i_val] = np.arange(n_repeats): the positions of
\* i_val, in order, get 0, 1, ...
AssignArange(cv, labels, v) ==
    LET idx == IndicesIn(labels, {v}, 1)
    IN  [p \in 1..Len(cv) |->
            IF labels[p] = v THEN (CHOOSE r \in 1..Len(idx) : idx[r] = p) - 1 ELSE cv[p]]

\* for i_val in values: ...
RECURSIVE CvLoop(_, _, _)
CvLoop(cv, labels, values) ==
    IF values = <<>> THEN cv
    ELSE CvLoop(AssignArange(cv, labels, values[1]), labels, Tail(values))

_gen_default_cv_descriptor(ds, descriptor) ==
    LET desc == ds.obs_descriptors[descriptor]
        values == np_unique(desc)
    IN  IF values = <<>> THEN [status |-> "IndexError", value |-> <<>>]
        ELSE IF \E v \in Range(values) : CountOf(desc, v) # CountOf(desc, values[1])
        THEN [status |-> "AssertionError_balance", value |-> <<>>]
        ELSE [status |-> "ok",
              value |-> CvLoop([p \in 1..Len(desc) |-> 0], desc, values)]

(***************************************************************************)
(* calc_rdm_crossnobis                                                     *)
(***************************************************************************)
\* the pairs visited by  for i_cond in range(n_cond - 1):
\*                          for j_cond in range(i_cond + 1, n_cond)
RECURSIVE CondPairsFrom(_, _, _)
CondPairsFrom(i, j, n) ==
    IF i > n - 1 THEN <<>>
    ELSE IF j > n THEN CondPairsFrom(i + 1, i + 2, n)
    ELSE <<<<i, j>>>> \o CondPairsFrom(i, j + 1, n)
CondPairs(n) == CondPairsFrom(1, 2, n)

\* dataset.obs_descriptors['cv_desc'] = cv_desc
WithObsDescriptor(ds, key, labels) ==
    [ds EXCEPT !.obs_descriptors = SetItem(@, key, labels)]

\* rdm[k] for one pair of conditions: np.mean(diff_train * diff_test), or
\* np.mean(diff_train * np.matmul(noise, diff_test))
CrossPair(train, test, i, j, ns) ==
    LET diff_train == VSub(train[i], train[j])
        diff_test == VSub(test[i], test[j])
    IN  IF ns.kind = "None" THEN Mean(VMul(diff_train, diff_test))
        ELSE Mean(VMul(diff_train, MatVec(ns.rows, diff_test)))

\* one pass of the fold loop of lines 368 to 393: the fold is the test set,
\* all other folds the training set
CrossFold(ds, descriptor, cv_descriptor, cv_folds, fold, ns) ==
    LET data_test == subset_obs(ds, cv_descriptor, {fold})
        data_train == subset_obs(ds, cv_descriptor, Range(cv_folds) \ {fold})
        measurements_train == average_dataset_by(data_train, descriptor).measurements
        measurements_test == average_dataset_by(data_test, descriptor).measurements
        n_cond == measurements_train.shape[1]
        pairs == CondPairs(n_cond)
    IN  IF n_cond >= 2 /\ measurements_test.shape[1] < n_cond
        THEN [status |-> "IndexError", rdm |-> <<>>]
        ELSE [status |-> "ok",
              rdm |-> [k \in 1..Len(pairs) |->
                          CrossPair(measurements_train.rows, measurements_test.rows,
                                    pairs[k][1], pairs[k][2], ns)]]

\* a slip: the last fold never serves as test set
CrossFolds_skiplast(ds, descriptor, cv_descriptor, cv_folds, ns) ==
    [i_fold \in 1..(Len(cv_folds) - 1) |->
        CrossFold(ds, descriptor, cv_descriptor, cv_folds, cv_folds[i_fold], ns)]

\* for i_fold in range(len(cv_folds)): ... rdms.append(rdm)
CrossFolds(ds, descriptor, cv_descriptor, cv_folds, ns) ==
    [i_fold \in 1..Len(cv_folds) |->
        CrossFold(ds, descriptor, cv_descriptor, cv_folds, cv_folds[i_fold], ns)]

\* determinant and inverse of a square rational matrix (np.linalg.inv)
Minor(A, r, c) ==
    [i \in 1..(Len(A) - 1) |-> [j \in 1..(Len(A) - 1) |->
        A[IF i < r THEN i ELSE i + 1][IF j < c THEN j ELSE j + 1]]]

RECURSIVE Det(_)
Det(A) ==
    IF Len(A) = 0 THEN Q(1)
    ELSE Sum([c \in 1..Len(A) |->
                 Mul(Mul(Q(IF c % 2 = 1 THEN 1 ELSE -1), A[1][c]), Det(Minor(A, 1, c)))])

Invertible(A) == Det(A) # Q(0)
Inv(A) ==
    [i \in 1..Len(A) |-> [j \in 1..Len(A) |->
        Div(Mul(Q(IF (i + j) % 2 = 0 THEN 1 ELSE -1), Det(Minor(A, j, i))), Det(A))]]
MatAdd(A, B) == [i \in 1..Len(A) |-> [j \in 1..Len(A[i]) |-> Add(A[i][j], B[i][j])]]

\* _calc_rdm_crossnobis_single: diff_2 = noise @ diff_2.transpose();
\* np.einsum('kj,jk->k', diff_1, diff_2) / measurements1.shape[1]
_calc_rdm_crossnobis_single(measurements1, measurements2, nsrows) ==
    LET diff_1 == PD(measurements1).rows
        diff_2 == PD(measurements2).rows
        ndiff_2 == [k \in 1..Len(diff_2) |-> MatVec(nsrows, diff_2[k])]
    IN  IF ~EinsumFits(diff_1, ndiff_2) THEN [status |-> "ValueError_operand", rdm |-> <<>>]
        ELSE [status |-> "ok",
              rdm |-> VDivScalar(EinsumRowsB(diff_1, ndiff_2), measurements1.shape[2])]

\* the branch for a collection of noises, lines 395 to 408: one precision
\* per fold, every pair of folds i < j
CrossFoldPairs(ds, descriptor, cv_descriptor, cv_folds, ns) ==
    LET F == Len(cv_folds)
        measurements == [f \in 1..F |->
            average_dataset_by(subset_obs(ds, cv_descriptor, {cv_folds[f]}),
                               descriptor).measurements]
        missing(f) == ~HasItem(ns, f - 1)
        unusable(f) == missing(f) \/ ~IsMatrix(GetItem(ns, f - 1))
                          \/ ~Invertible(GetItem(ns, f - 1).rows)
        variances == [f \in 1..F |-> Inv(GetItem(ns, f - 1).rows)]
        fpairs == CondPairs(F)
        summed(k) == MatAdd(variances[fpairs[k][1]], variances[fpairs[k][2]])
    IN  IF \E f \in 1..F : unusable(f)
        THEN LET f == CHOOSE f \in 1..F : unusable(f) /\ \A g \in 1..(f - 1) : ~unusable(g)
             IN  <<[status |-> IF missing(f)
                               THEN (IF ns.kind = "dict" THEN "KeyError" ELSE "IndexError")
                               ELSE "LinAlgError",
                    rdm |-> <<>>]>>
        ELSE IF \E k \in 1..Len(fpairs) : ~Invertible(summed(k))
        THEN <<[status |-> "LinAlgError", rdm |-> <<>>]>>
        ELSE [k \in 1..Len(fpairs) |->
                 _calc_rdm_crossnobis_single(measurements[fpairs[k][1]],
                                             measurements[fpairs[k][2]], Inv(summed(k)))]

\* rdms = np.array(rdms); rdm = rdms.mean(axis=0): the mean of nothing is
\* one nan, rows of unequal length do not form an array
FoldMean(rdms) ==
    IF Len(rdms) = 0 THEN [shape |-> <<>>, rows |-> <<NaN>>]
    ELSE Vec([k \in 1..Len(rdms[1]) |-> Mean(Column(rdms, k))])

calc_rdm_crossnobis(ds, descriptor, ns, cv_descriptor) ==
    LET chk == _check_noise(ns, ds.n_channel)
        gen == _gen_default_cv_descriptor(ds, descriptor)
        ds1 == IF cv_descriptor = NoKey
               THEN WithObsDescriptor(ds, "cv_desc", gen.value) ELSE ds
        cv_key == IF cv_descriptor = NoKey THEN "cv_desc" ELSE cv_descriptor
        ds2 == sort_by(ds1, descriptor)
        cv_folds == np_unique(ds2.obs_descriptors[cv_key])
        folds == IF chk.noise.kind = "None" \/ IsMatrix(chk.noise)
                 THEN CrossFolds(ds2, descriptor, cv_key, cv_folds, chk.noise)
                 ELSE CrossFoldPairs(ds2, descriptor, cv_key, cv_folds, chk.noise)
        rdms == [f \in 1..Len(folds) |-> folds[f].rdm]
        rdm == RDMs(<<FoldMean(rdms)>>, "crossnobis", ds2.descriptors)
    IN  IF chk.status # "ok" THEN Raise(chk.status, ds, chk.noise)
        ELSE IF descriptor = NoKey THEN Raise("ValueError_descriptor", ds, chk.noise)
        ELSE IF cv_descriptor = NoKey /\ gen.status # "ok"
        THEN Raise(gen.status, ds, chk.noise)
        ELSE IF \E f \in 1..Len(folds) : folds[f].status # "ok"
        THEN Raise(folds[CHOOSE f \in 1..Len(folds) :
                             /\ folds[f].status # "ok"
                             /\ \A g \in 1..(f - 1) : folds[g].status = "ok"].status,
                   ds2, chk.noise)
        ELSE IF \E f \in 1..Len(rdms) : Len(rdms[f]) # Len(rdms[1])
        THEN Raise("ValueError_ragged", ds2, chk.noise)
        ELSE Ok([rdm EXCEPT
                    !.pattern_descriptors =
                        SetItem(@, descriptor, average_dataset_by(ds2, descriptor).desc),
                    !.descriptors =
                        SetItem(SetItem(@, "noise", chk.noise), "cv_descriptor", cv_key)],
                ds2, chk.noise)

(***************************************************************************)
(* calc_rdm_poisson_cv                                                     *)
(***************************************************************************)
\* one pass of the fold loop of lines 485 to 501
PoissonFold(ds, descriptor, cv_descriptor, cv_folds, fold, prior_lambda, prior_weight) ==
    LET data_test == subset_obs(ds, cv_descriptor, {fold})
        data_train == subset_obs(ds, cv_descriptor, Range(cv_folds) \ {fold})
        measurements_train ==
            Shrink(average_dataset_by(data_train, descriptor).measurements,
                   prior_lambda, prior_weight)
        measurements_test ==
            Shrink(average_dataset_by(data_test, descriptor).measurements,
                   prior_lambda, prior_weight)
    IN  IF ~EinsumFits(PD(measurements_train).rows, PD(measurements_test).rows)
        THEN [status |-> "ValueError_operand", rdm |-> <<>>]
        ELSE [status |-> "ok", rdm |-> PoissonValues(measurements_train, measurements_test)]

\* a slip: the passes' estimates are collected and averaged, as
\* calc_rdm_crossnobis does
LoopResult_mean(folds) ==
    FoldMean([f \in 1..Len(folds) |-> folds[f].rdm.rows])

\* the variable rdm after the loop of lines 485 to 501: every pass assigns
\* it anew, no list is kept
LoopResult(folds) == folds[Len(folds)].rdm

\* the loop assigns rdm in every pass and keeps no list: after the loop rdm
\* is what the last pass computed
calc_rdm_poisson_cv(ds, descriptor, prior_lambda, prior_weight, cv_descriptor) ==
    LET gen == _gen_default_cv_descriptor(ds, descriptor)
        ds1 == IF cv_descriptor = NoKey
               THEN WithObsDescriptor(ds, "cv_desc", gen.value) ELSE ds
        cv_key == IF cv_descriptor = NoKey THEN "cv_desc" ELSE cv_descriptor
        ds2 == sort_by(ds1, descriptor)
        cv_folds == np_unique(ds2.obs_descriptors[cv_key])
        folds == [i_fold \in 1..Len(cv_folds) |->
                     PoissonFold(ds2, descriptor, cv_key, cv_folds, cv_folds[i_fold],
                                 prior_lambda, prior_weight)]
        rdm == RDMs(<<LoopResult(folds)>>, "poisson_cv", ds2.descriptors)
    IN  IF descriptor = NoKey THEN Raise("ValueError_descriptor", ds, None)
        ELSE IF cv_descriptor = NoKey /\ gen.status # "ok" THEN Raise(gen.status, ds, None)
        ELSE IF \E f \in 1..Len(folds) : folds[f].status # "ok"
        THEN Raise("ValueError_operand", ds2, None)
        ELSE IF Len(folds) = 0 THEN Raise("UnboundLocalError", ds2, None)
        ELSE Ok([rdm EXCEPT
                    !.pattern_descriptors =
                        SetItem(@, descriptor, average_dataset_by(ds2, descriptor).desc)],
                ds2, None)

(***************************************************************************)
(* calc_rdm_correlation_cv and _calc_magnitude_cv                          *)
(***************************************************************************)
Sign(a) == IF IsQ(a) THEN Q(RSign(a)) ELSE Term("sign", a, <<>>)
AbsS(a) == IF IsQ(a) THEN RAbs(a) ELSE Term("abs", a, <<>>)

\* the mean over the rows B of the matrix, channel by channel
MeanOver(rows, B, m) ==
    [c \in 1..m |-> Mean([r \in 1..Len(B) |-> rows[B[r]][c]])]

\* x - x.mean()
CenterVec(v) == [c \in 1..Len(v) |-> Sub(v[c], Mean(v))]

\* the estimate for one observation (group A) against the mean of all
\* others (group B)
MagnitudeEstimate(rows, a, m, subtract_mean) ==
    LET B == SortedSeq((1..Len(rows)) \ {a})
        groupA_mean == rows[a]
        groupB_mean == MeanOver(rows, B, m)
    IN  IF subtract_mean THEN Dot(CenterVec(groupA_mean), CenterVec(groupB_mean))
        ELSE Dot(groupA_mean, groupB_mean)

_calc_magnitude_cv(measurements, subtract_mean) ==
    LET rows == measurements.rows
        estimates == [a \in 1..Len(rows) |->
                         MagnitudeEstimate(rows, a, measurements.shape[2], subtract_mean)]
        squared_magnitude == Mean(estimates)
    IN  Mul(Sign(squared_magnitude), Sqrt(AbsS(squared_magnitude)))

\* rdm[k] = 1 - (corr_numerator / corr_denominator)
CorrelationCvValues(centered, magnitudes) ==
    LET pairs == CondPairs(Len(centered))
    IN  Vec([k \in 1..Len(pairs) |->
                Sub(Q(1), Div(Dot(centered[pairs[k][1]], centered[pairs[k][2]]),
                              Mul(magnitudes[pairs[k][1]], magnitudes[pairs[k][2]])))])

\* no test of descriptor: with None, _parse_input supplies 'pattern' and the
\* observation indices, and subset_obs is asked for that key
\* the result is built with descriptors=dataset.descriptors, the dataset's
\* own mapping, and no rdm_descriptors
calc_rdm_correlation_cv(ds, descriptor) ==
    LET p == _parse_input(ds, descriptor)
        magnitudes == [d \in 1..Len(p.desc) |->
            LET data_subset == subset_obs(ds, p.descriptor, {p.desc[d]})
            IN  _calc_magnitude_cv(Arr(data_subset.measurements, ds.n_channel), TRUE)]
        rdm == RDMs(<<CorrelationCvValues(CenterRows(p.measurements.rows), magnitudes)>>,
                    "correlation_cv", << >>)
    IN  IF p.descriptor \notin DOMAIN ds.obs_descriptors THEN Raise("KeyError", ds, None)
        ELSE Ok([rdm EXCEPT !.pattern_descriptors = SetItem(@, p.descriptor, p.desc),
                            !.descriptors = ds.descriptors,
                            !.shares_descriptors = TRUE],
                ds, None)

(***************************************************************************)
(* calc_rdm                                                                *)
(***************************************************************************)
\* concat(rdms): the RDMs of the parts, in order, in one object
concat(rdms) ==
    LET RECURSIVE Cat(_)
        Cat(k) == IF k = 0 THEN <<>> ELSE Cat(k - 1) \o rdms[k].dissimilarities
        RECURSIVE CatDesc(_, _)
        CatDesc(key, k) ==
            IF k = 0 THEN <<>>
            ELSE CatDesc(key, k - 1) \o
                 (IF key \in DOMAIN rdms[k].rdm_descriptors
                  THEN rdms[k].rdm_descriptors[key] ELSE <<>>)
    IN  [rdms[1] EXCEPT
            !.dissimilarities = Cat(Len(rdms)),
            !.rdm_descriptors = [key \in DOMAIN rdms[1].rdm_descriptors |->
                                    CatDesc(key, Len(rdms))]]

PriorLambdaDefault == Q(1)
PriorWeightDefault == <<1, 10>>

\* the branch for one dataset, lines 65 to 89
calc_rdm_single(ds, method, descriptor, ns, cv_descriptor, prior_lambda, prior_weight) ==
    IF method = "euclidean" THEN calc_rdm_euclid(ds, descriptor)
    ELSE IF method = "correlation" THEN calc_rdm_correlation(ds, descriptor)
    ELSE IF method = "correlation_cv" THEN calc_rdm_correlation_cv(ds, descriptor)
    ELSE IF method = "mahalanobis" THEN calc_rdm_mahalanobis(ds, descriptor, ns)
    ELSE IF method \in {"crossnobis", "crosseuclid"}
    THEN calc_rdm_crossnobis(ds, descriptor, IF method = "crossnobis" THEN ns ELSE None,
                             cv_descriptor)
    ELSE IF method = "poisson"
    THEN calc_rdm_poisson(ds, descriptor, prior_lambda, prior_weight)
    ELSE IF method = "poisson_cv"
    THEN calc_rdm_poisson_cv(ds, descriptor, prior_lambda, prior_weight, cv_descriptor)
    ELSE Raise("NotImplementedError", ds, ns)

IsCollection(d) == d.kind = "list"

\* a slip: every element computed with the first noise of the collection
ElementNoise_first(ns, i_dat) ==
    IF ns.kind = "None" THEN [status |-> "ok", noise |-> None]
    ELSE IF IsMatrix(ns) THEN [status |-> "ok", noise |-> ns]
    ELSE IF IsIterable(ns)
    THEN (IF HasItem(ns, 0) THEN [status |-> "ok", noise |-> GetItem(ns, 0)]
          ELSE [status |-> IF ns.kind = "dict" THEN "KeyError" ELSE "IndexError",
                noise |-> None])
    ELSE [status |-> "skip", noise |-> None]

\* the noise for element i_dat (from 0) of a collection, lines 43 to 62
ElementNoise(ns, i_dat) ==
    IF ns.kind = "None" THEN [status |-> "ok", noise |-> None]
    ELSE IF IsMatrix(ns) THEN [status |-> "ok", noise |-> ns]
    ELSE IF IsIterable(ns)
    THEN (IF HasItem(ns, i_dat) THEN [status |-> "ok", noise |-> GetItem(ns, i_dat)]
          ELSE [status |-> IF ns.kind = "dict" THEN "KeyError" ELSE "IndexError",
                noise |-> None])
    ELSE [status |-> "skip", noise |-> None]

RECURSIVE calc_rdm(_, _, _, _, _, _, _)
RECURSIVE CollectionLoop(_, _, _, _, _, _, _, _, _)

\* for i_dat in range(len(dataset)): rdms.append(calc_rdm(dataset[i_dat], ...))
\* an element's call works on the element itself, so what it does to the
\* element stays in the collection
CollectionLoop(coll, i_dat, rdms, method, descriptor, ns, cv_descriptor, prior_lambda, prior_weight) ==
    IF i_dat >= Len(coll.items) THEN [status |-> "ok", rdms |-> rdms, dataset |-> coll]
    ELSE LET en == ElementNoise(ns, i_dat)
             r == calc_rdm(coll.items[i_dat + 1], method, descriptor, en.noise,
                           cv_descriptor, prior_lambda, prior_weight)
             coll1 == [coll EXCEPT !.items[i_dat + 1] = r.dataset]
         IN  IF en.status = "skip"
             THEN CollectionLoop(coll, i_dat + 1, rdms, method, descriptor, ns,
                                 cv_descriptor, prior_lambda, prior_weight)
             ELSE IF en.status # "ok"
             THEN [status |-> en.status, rdms |-> rdms, dataset |-> coll]
             ELSE IF r.status # "ok"
             THEN [status |-> r.status, rdms |-> rdms, dataset |-> coll1]
             ELSE CollectionLoop(coll1, i_dat + 1, Append(rdms, r.rdm), method,
                                 descriptor, ns, cv_descriptor, prior_lambda, prior_weight)

calc_rdm(d, method, descriptor, ns, cv_descriptor, prior_lambda, prior_weight) ==
    IF IsCollection(d)
    THEN LET loop == CollectionLoop(d, 0, <<>>, method, descriptor, ns, cv_descriptor,
                                    prior_lambda, prior_weight)
         IN  IF loop.status # "ok" THEN Raise(loop.status, loop.dataset, ns)
             ELSE IF loop.rdms = <<>> THEN Raise("concat_of_nothing", loop.dataset, ns)
             ELSE Ok(concat(loop.rdms), loop.dataset, ns)
    ELSE [calc_rdm_single(d, method, descriptor, ns, cv_descriptor, prior_lambda,
                          prior_weight) EXCEPT !.noise = ns]

(***************************************************************************)
(* calc_rdm_movie                                                          *)
(***************************************************************************)
\* a temporal dataset: measurements[obs][channel][time sample], and the
\* time descriptors, one value per time sample under every key
TemporalDataset(measurements, n_channel, obs_descriptors, time_descriptors) ==
    [kind |-> "TemporalDataset", measurements |-> measurements, n_channel |-> n_channel,
     obs_descriptors |-> obs_descriptors, time_descriptors |-> time_descriptors,
     descriptors |-> [session |-> 1]]

n_time(tds) == Len(tds.measurements[1][1])

\* the time samples idx of a temporal dataset, in that order
TakeTime(tds, idx) ==
    [tds EXCEPT
        !.measurements = [o \in DOMAIN @ |-> [c \in DOMAIN @[o] |->
                             [t \in 1..Len(idx) |-> @[o][c][idx[t]]]]],
        !.time_descriptors = [k \in DOMAIN @ |-> [t \in 1..Len(idx) |-> @[k][idx[t]]]]]

\* dataset.split_time(by): one temporal dataset per time sample, in order
split_time(tds, by) == [t \in 1..n_time(tds) |-> TakeTime(tds, <<t>>)]

\* dataset.bin_time(by, bins): one time sample per bin, the mean of the
\* samples whose time is in the bin, with the mean of their times as its time
bin_time(tds, by, bins) ==
    LET time == tds.time_descriptors[by]
        t_idx == [b \in 1..Len(bins) |-> IndicesIn(time, bins[b], 1)]
    IN  [tds EXCEPT
            !.measurements = [o \in DOMAIN @ |-> [c \in DOMAIN @[o] |->
                [b \in 1..Len(bins) |->
                    Mean([q \in 1..Len(t_idx[b]) |-> @[o][c][t_idx[b][q]]])]]],
            !.time_descriptors = [k \in {by} |->
                [b \in 1..Len(bins) |->
                    Mean([q \in 1..Len(t_idx[b]) |-> time[t_idx[b][q]]])]]]

\* dat.convert_to_dataset(by) of one time sample: its observations as the
\* rows of a dataset, the time descriptors among the observation descriptors
convert_to_dataset(tds, by) ==
    LET n == Len(tds.measurements)
    IN  Dataset([o \in 1..n |-> [c \in 1..tds.n_channel |-> tds.measurements[o][c][1]]],
                tds.n_channel,
                [k \in DOMAIN tds.obs_descriptors \cup DOMAIN tds.time_descriptors |->
                    IF k \in DOMAIN tds.time_descriptors
                    THEN [o \in 1..n |-> tds.time_descriptors[k][1]]
                    ELSE tds.obs_descriptors[k]])

\* a slip: the movie stamped with the times of the samples, binned or not
MovieTime_unbinned(tds, time_descriptor, bins) ==
    [data |-> IF bins # None THEN split_time(bin_time(tds, time_descriptor, bins.items),
                                            time_descriptor)
              ELSE split_time(tds, time_descriptor),
     time |-> tds.time_descriptors[time_descriptor]]

\* lines 139 to 145: the datasets of the bins and their times
MovieTime(tds, time_descriptor, bins) ==
    IF bins # None
    THEN LET binned_data == bin_time(tds, time_descriptor, bins.items)
         IN  [data |-> split_time(binned_data, time_descriptor),
              time |-> binned_data.time_descriptors[time_descriptor]]
    ELSE [data |-> split_time(tds, time_descriptor),
          time |-> tds.time_descriptors[time_descriptor]]

\* lines 156 to 158: rdm = concat(rdms); rdm.rdm_descriptors[time_descriptor] = time
MovieResult(loop, time, d, ns, time_descriptor) ==
    IF loop.status # "ok" THEN Raise(loop.status, d, ns)
    ELSE IF loop.rdms = <<>> THEN Raise("concat_of_nothing", d, ns)
    ELSE Ok([concat(loop.rdms) EXCEPT !.rdm_descriptors = SetItem(@, time_descriptor, time)],
            d, ns)

\* lines 147 to 154: for dat in splited_data: rdms.append(calc_rdm(...))
RECURSIVE MovieBinLoop(_, _, _, _, _, _, _, _, _, _)

\* rdms.append(r), r what calc_rdm gave for bin k, and on to the next bin;
\* an exception ends the loop
MovieBinAppend(r, splited_data, k, rdms, method, descriptor, ns, cv_descriptor, prior_lambda, prior_weight, time_descriptor) ==
    IF r.status # "ok" THEN [status |-> r.status, rdms |-> rdms]
    ELSE MovieBinLoop(splited_data, k + 1, Append(rdms, r.rdm), method, descriptor, ns,
                      cv_descriptor, prior_lambda, prior_weight, time_descriptor)

MovieBinLoop(splited_data, k, rdms, method, descriptor, ns, cv_descriptor, prior_lambda, prior_weight, time_descriptor) ==
    IF k > Len(splited_data) THEN [status |-> "ok", rdms |-> rdms]
    ELSE MovieBinAppend(calc_rdm(convert_to_dataset(splited_data[k], time_descriptor),
                                 method, descriptor, ns, cv_descriptor, prior_lambda,
                                 prior_weight),
                        splited_data, k, rdms, method, descriptor, ns, cv_descriptor,
                        prior_lambda, prior_weight, time_descriptor)

RECURSIVE calc_rdm_movie(_, _, _, _, _, _, _, _, _)
RECURSIVE MovieCollectionLoop(_, _, _, _, _, _)

\* lines 122 to 136: the call on an element names method, descriptor and
\* noise; every other argument is left to its default
MovieCollectionLoop(coll, i_dat, rdms, method, descriptor, ns) ==
    IF i_dat >= Len(coll.items) THEN [status |-> "ok", rdms |-> rdms]
    ELSE LET en == ElementNoise(ns, i_dat)
             r == calc_rdm_movie(coll.items[i_dat + 1], method, descriptor, en.noise,
                                 NoKey, PriorLambdaDefault, PriorWeightDefault, "time", None)
         IN  IF en.status = "skip"
             THEN MovieCollectionLoop(coll, i_dat + 1, rdms, method, descriptor, ns)
             ELSE IF en.status # "ok" THEN [status |-> en.status, rdms |-> rdms]
             ELSE IF r.status # "ok" THEN [status |-> r.status, rdms |-> rdms]
             ELSE MovieCollectionLoop(coll, i_dat + 1, Append(rdms, r.rdm), method,
                                      descriptor, ns)

calc_rdm_movie(d, method, descriptor, ns, cv_descriptor, prior_lambda, prior_weight, time_descriptor, bins) ==
    IF IsCollection(d)
    THEN LET loop == MovieCollectionLoop(d, 0, <<>>, method, descriptor, ns)
         IN  IF loop.status # "ok" THEN Raise(loop.status, d, ns)
             ELSE IF loop.rdms = <<>> THEN Raise("concat_of_nothing", d, ns)
             ELSE Ok(concat(loop.rdms), d, ns)
    ELSE IF time_descriptor \notin DOMAIN d.time_descriptors THEN Raise("KeyError", d, ns)
    ELSE LET mt == MovieTime(d, time_descriptor, bins)
         IN  MovieResult(MovieBinLoop(mt.data, 1, <<>>, method, descriptor, ns,
                                      cv_descriptor, prior_lambda, prior_weight,
                                      time_descriptor),
                         mt.time, d, ns, time_descriptor)

(***************************************************************************)
(* Specification SpecEst: calc_rdm called on one dataset of up to MaxObs   *)
(* distinct observations of two channels, with every method and every      *)
(* choice of descriptor, cv_descriptor and noise.                          *)
(***************************************************************************)
Observations ==
    {[row |-> <<0, 0>>, cond |-> 1, fold |-> 0],
     [row |-> <<1, 0>>, cond |-> 2, fold |-> 0],
     [row |-> <<0, 1>>, cond |-> 1, fold |-> 1],
     [row |-> <<1, 1>>, cond |-> 2, fold |-> 1],
     [row |-> <<3, 1>>, cond |-> 3, fold |-> 0],
     [row |-> <<2, 2>>, cond |-> 1, fold |-> 0]}

DatasetOf(obs) ==
    Dataset([r \in 1..Len(obs) |-> QRow(obs[r].row)], 2,
            [cond |-> [r \in 1..Len(obs) |-> obs[r].cond],
             fold |-> [r \in 1..Len(obs) |-> obs[r].fold]])

Methods == {"euclidean", "correlation", "correlation_cv", "mahalanobis", "crossnobis",
            "crosseuclid", "poisson", "poisson_cv"}
EstNoises == {None, Eye2, Prec2, Eye1, [kind |-> "list", items |-> <<Eye2, Eye2Half>>]}

\* calc_rdm hands noise to mahalanobis and crossnobis only, and
\* cv_descriptor to the three fold-based methods only; elsewhere the
\* argument is left at its default
CallArgs ==
    {a \in [method : Methods, descriptor : {NoKey, "cond"}, noise : EstNoises,
            cv_descriptor : {NoKey, "fold"}] :
        /\ a.method \notin {"mahalanobis", "crossnobis"} => a.noise = None
        /\ a.method \notin {"crossnobis", "crosseuclid", "poisson_cv"}
              => a.cv_descriptor = NoKey}

InitEst ==
    /\ \E n \in 1..MaxObs : \E obs \in [1..n -> Observations] :
          Injective(obs) /\ dataset = DatasetOf(obs)
    /\ orig = dataset
    /\ noise = None
    /\ call = NoCall
    /\ result = NoResult

CalcRdmCall ==
    /\ call.fn = "init"
    /\ \E a \in CallArgs :
        \E r \in {calc_rdm(dataset, a.method, a.descriptor, a.noise, a.cv_descriptor,
                           PriorLambdaDefault, PriorWeightDefault)} :
            /\ call' = [fn |-> "calc_rdm", method |-> a.method,
                        descriptor |-> a.descriptor, noise |-> a.noise,
                        cv_descriptor |-> a.cv_descriptor, before |-> dataset]
            /\ result' = [status |-> r.status, rdm |-> r.rdm]
            /\ dataset' = r.dataset
            /\ noise' = r.noise
            /\ UNCHANGED orig

NextEst == CalcRdmCall

SpecEst == InitEst /\ [][NextEst]_vars

\* the number of conditions of the last call: the distinct labels of the
\* descriptor, or the observations when there is none
NumConditions ==
    IF call.descriptor = NoKey THEN Len(call.before.measurements)
    ELSE Cardinality(Range(call.before.obs_descriptors[call.descriptor]))

\* C1: for every method the dissimilarity array computed for one RDM is a
\* flat vector of length C(C-1)/2, C the number of conditions.
C1_CondensedLength ==
    (call.fn = "calc_rdm" /\ result.status = "ok") =>
        result.rdm.dissimilarities[1].shape = <<(NumConditions * (NumConditions - 1)) \div 2>>

\* the mean, over the observations labelled lab, of channel m
ConditionMean(ds, key, lab, m) ==
    LET labels == ds.obs_descriptors[key]
        n == Len(labels)
    IN  RDiv(Sum([p \in 1..n |-> IF labels[p] = lab THEN ds.measurements[p][m] ELSE Q(0)]),
             Q(Cardinality({p \in 1..n : labels[p] = lab})))

\* the pattern of condition i of the last call's result, channel m
PatternValue(i, m) ==
    IF call.descriptor = NoKey THEN call.before.measurements[i][m]
    ELSE ConditionMean(call.before, call.descriptor,
                       result.rdm.pattern_descriptors[call.descriptor][i], m)

MeanSquaredDifference(i, j, M) ==
    RDiv(Sum([m \in 1..M |->
                 RMul(RSub(PatternValue(i, m), PatternValue(j, m)),
                      RSub(PatternValue(i, m), PatternValue(j, m)))]), Q(M))

Fixture == Dataset(QMat(<<<<0, 0>>, <<1, 0>>, <<0, 1>>, <<1, 1>>>>), 2,
                   [cond |-> <<1, 2, 1, 2>>, fold |-> <<0, 0, 1, 1>>])

\* C3: method 'euclidean' returns, for every pair of conditions in canonical
\* order, the sum over the channels of the squared difference of the two
\* averaged patterns divided by the number of channels; the fixture
\* [[0,0],[1,0],[0,1],[1,1]] without descriptor gives
\* [0.5, 0.5, 1.0, 1.0, 0.5, 0.5].
C3_Euclidean ==
    (call.fn = "calc_rdm" /\ call.method = "euclidean") =>
        LET C == NumConditions
            M == call.before.n_channel
            key == IF call.descriptor = NoKey THEN "pattern" ELSE call.descriptor
            d == result.rdm.dissimilarities[1]
        IN  /\ result.status = "ok"
            /\ Len(result.rdm.dissimilarities) = 1
            /\ Len(result.rdm.pattern_descriptors[key]) = C
            /\ Injective(result.rdm.pattern_descriptors[key])
            /\ d.shape = <<(C * (C - 1)) \div 2>>
            /\ Len(d.rows) = (C * (C - 1)) \div 2
            /\ \A i \in 1..C, j \in 1..C :
                  i < j => d.rows[PairIndex(i, j, C)] = MeanSquaredDifference(i, j, M)
            /\ (call.before = Fixture /\ call.descriptor = NoKey) =>
                  d.rows = <<<<1, 2>>, <<1, 2>>, <<1, 1>>, <<1, 1>>, <<1, 2>>, <<1, 2>>>>

C3_Witness ==
    /\ call.fn = "calc_rdm"
    /\ call.method = "euclidean"
    /\ call.before = Fixture
    /\ call.descriptor = NoKey
    /\ result.status = "ok"
    /\ result.rdm.dissimilarities[1].rows =
          <<<<1, 2>>, <<1, 2>>, <<1, 1>>, <<1, 1>>, <<1, 2>>, <<1, 2>>>>

C3_WitnessAveraged ==
    /\ call.fn = "calc_rdm"
    /\ call.method = "euclidean"
    /\ call.descriptor = "cond"
    /\ call.before = Fixture
    /\ result.status = "ok"
    /\ result.rdm.dissimilarities[1].rows = <<<<1, 2>>>>

\* C11: calc_rdm_mahalanobis with noise absent returns the dissimilarity
\* values of calc_rdm_euclid on the same input, in the same order: per
\* canonical pair the mean over the channels of the squared difference.
C11_MahalanobisWithoutNoise ==
    (call.fn = "calc_rdm" /\ call.method = "mahalanobis" /\ call.noise = None) =>
        \A e \in {calc_rdm_euclid(call.before, call.descriptor)} :
            LET C == NumConditions
                d == result.rdm.dissimilarities[1]
            IN  /\ result.status = "ok"
                /\ e.status = "ok"
                /\ result.rdm.dissimilarities = e.rdm.dissimilarities
                /\ Len(d.rows) = (C * (C - 1)) \div 2
                /\ \A i \in 1..C, j \in 1..C :
                      i < j => d.rows[PairIndex(i, j, C)] =
                                  MeanSquaredDifference(i, j, call.before.n_channel)

C11_Witness ==
    /\ call.fn = "calc_rdm"
    /\ call.method = "mahalanobis"
    /\ call.noise = None
    /\ call.descriptor = "cond"
    /\ call.before = Fixture
    /\ result.status = "ok"
    /\ result.rdm.dissimilarity_measure = "euclidean"
    /\ result.rdm.dissimilarities[1].rows = <<<<1, 2>>>>

GroupedMethods == {"crossnobis", "poisson_cv", "correlation_cv"}

\* C4: the estimators that need grouping raise the explicit
\* missing-descriptor error when descriptor is absent, before computing on
\* the dataset and without changing it.
C4_FailFast ==
    (call.fn = "calc_rdm" /\ call.method \in GroupedMethods /\ call.descriptor = NoKey) =>
        (result.status = "ValueError_descriptor" /\ dataset = call.before)

(***************************************************************************)
(* Specification SpecSeq: calc_rdm called again and again on one dataset,  *)
(* any methods in any order.                                               *)
(***************************************************************************)
MaxSeqObs == 4   \* observations of the dataset in SpecSeq

SeqObservations ==
    {[row |-> <<1, 0>>, cond |-> 2, fold |-> 0],
     [row |-> <<0, 0>>, cond |-> 1, fold |-> 0],
     [row |-> <<1, 1>>, cond |-> 2, fold |-> 1],
     [row |-> <<0, 1>>, cond |-> 1, fold |-> 1]}

SeqArgs ==
    {a \in CallArgs :
        /\ a.noise \in {None, Prec2}
        /\ a.descriptor = NoKey => a.method \in {"euclidean", "poisson_cv"} /\ a.noise = None
        /\ a.noise = Prec2 => a.cv_descriptor = NoKey}

InitSeq ==
    /\ \E n \in 1..MaxSeqObs : \E obs \in [1..n -> SeqObservations] :
          Injective(obs) /\ dataset = DatasetOf(obs)
    /\ orig = dataset
    /\ noise = None
    /\ call = NoCall
    /\ result = NoResult

SeqCall ==
    \E a \in SeqArgs :
        \E r \in {calc_rdm(dataset, a.method, a.descriptor, a.noise, a.cv_descriptor,
                           PriorLambdaDefault, PriorWeightDefault)} :
            /\ call' = [fn |-> "calc_rdm", method |-> a.method,
                        descriptor |-> a.descriptor, noise |-> a.noise,
                        cv_descriptor |-> a.cv_descriptor, before |-> dataset]
            /\ result' = [status |-> r.status, rdm |-> r.rdm]
            /\ dataset' = r.dataset
            /\ noise' = r.noise
            /\ UNCHANGED orig

NextSeq == SeqCall

SpecSeq == InitSeq /\ [][NextSeq]_vars

\* the dataset without the observation descriptor key
WithoutKey(ds, key) ==
    [ds EXCEPT !.obs_descriptors = [k \in (DOMAIN @) \ {key} |-> @[k]]]

\* observation p of a dataset: its measurements and its labels under keys
ObsRow(ds, keys, p) == <<ds.measurements[p], [k \in keys |-> ds.obs_descriptors[k][p]]>>

\* ds holds the observations of ds0, each as often, in some order
SameObservations(ds, ds0) ==
    LET keys == DOMAIN ds0.obs_descriptors
        n == Len(ds0.measurements)
    IN  /\ Len(ds.measurements) = n
        /\ keys \subseteq DOMAIN ds.obs_descriptors
        /\ \A p \in 1..n :
              Cardinality({q \in 1..n : ObsRow(ds, keys, q) = ObsRow(ds0, keys, p)})
                 = Cardinality({q \in 1..n : ObsRow(ds0, keys, q) = ObsRow(ds0, keys, p)})

SortedBy(ds, key) ==
    \A p, q \in 1..Len(ds.measurements) :
        p < q => ds.obs_descriptors[key][p] <= ds.obs_descriptors[key][q]

\* cv_desc numbers the repeats of every condition 0, 1, ... in dataset order
DefaultFoldLabels(ds, key) ==
    \A p \in 1..Len(ds.measurements) :
        ds.obs_descriptors["cv_desc"][p] =
            Occurrences(ds.obs_descriptors[key], ds.obs_descriptors[key][p], p) - 1

FoldMethods == {"crossnobis", "crosseuclid", "poisson_cv"}

\* C7 as stated: apart from calc_rdm_crossnobis without cv_descriptor adding
\* the fold-label descriptor, no call changes the dataset: order,
\* measurements and observation descriptors stay as they were.
C7_DatasetUntouched ==
    call.fn = "calc_rdm" =>
        /\ IF call.method \in {"crossnobis", "crosseuclid"} /\ call.cv_descriptor = NoKey
           THEN WithoutKey(dataset, "cv_desc") = WithoutKey(call.before, "cv_desc")
           ELSE dataset = call.before
        /\ WithoutKey(dataset, "cv_desc") = orig

\* C7 amended: euclidean, correlation, correlation_cv, mahalanobis and
\* poisson leave the dataset as it was.  crossnobis, crosseuclid and
\* poisson_cv leave it as it was when they raise before the sort; otherwise
\* they reorder its observations (measurements and labels together) to
\* ascending descriptor and, when no cv_descriptor was given, store the
\* default fold labels as 'cv_desc'.  Nothing else changes, and after any
\* sequence of calls the dataset holds the observations it was built with.
C7_DatasetEffects ==
    call.fn = "calc_rdm" =>
        /\ call.method \notin FoldMethods => dataset = call.before
        /\ call.method \in FoldMethods =>
              \/ dataset = call.before
              \/ /\ call.descriptor # NoKey
                 /\ SameObservations(dataset, call.before)
                 /\ SortedBy(dataset, call.descriptor)
                 /\ [dataset EXCEPT !.measurements = <<>>, !.obs_descriptors = <<>>]
                       = [call.before EXCEPT !.measurements = <<>>, !.obs_descriptors = <<>>]
                 /\ DOMAIN dataset.obs_descriptors =
                       DOMAIN call.before.obs_descriptors
                          \cup (IF call.cv_descriptor = NoKey THEN {"cv_desc"} ELSE {})
                 /\ call.cv_descriptor = NoKey => DefaultFoldLabels(dataset, call.descriptor)
        /\ SameObservations(dataset, orig)
        /\ DOMAIN dataset.obs_descriptors \subseteq DOMAIN orig.obs_descriptors \cup {"cv_desc"}

C7_Witness ==
    /\ call.fn = "calc_rdm"
    /\ call.method = "poisson_cv"
    /\ call.cv_descriptor = NoKey
    /\ result.status = "ok"
    /\ orig.obs_descriptors["cond"] = <<2, 1, 2, 1>>
    /\ call.before = orig
    /\ dataset.obs_descriptors["cond"] = <<1, 1, 2, 2>>
    /\ dataset.obs_descriptors["cv_desc"] = <<0, 1, 0, 1>>
    /\ dataset.measurements # orig.measurements

(***************************************************************************)
(* Specification SpecCv: _gen_default_cv_descriptor applied to datasets    *)
(* with every sequence of up to MaxCvObs condition labels.                 *)
(***************************************************************************)
MaxCvObs == 6    \* observations of a dataset in SpecCv
CvConds == {1, 2, 3}

InitCv ==
    /\ \E n \in 1..MaxCvObs : \E labels \in [1..n -> CvConds] :
          dataset = Dataset([r \in 1..n |-> <<Q(r)>>], 1, [cond |-> labels])
    /\ orig = dataset
    /\ noise = None
    /\ call = NoCall
    /\ result = NoResult

GenCvCall ==
    /\ call.fn = "init"
    /\ call' = [fn |-> "_gen_default_cv_descriptor", descriptor |-> "cond"]
    /\ result' = _gen_default_cv_descriptor(dataset, "cond")
    /\ UNCHANGED <<dataset, noise, orig>>

NextCv == GenCvCall

SpecCv == InitCv /\ [][NextCv]_vars

\* C5: unequal repeat counts give the balance error and no labels;
\* otherwise the r-th occurrence of every condition gets fold r-1, so each
\* fold 0..R-1 holds exactly one observation of each condition.
C5_DefaultFolds ==
    call.fn = "_gen_default_cv_descriptor" =>
        LET labels == dataset.obs_descriptors["cond"]
            n == Len(labels)
            conds == Range(labels)
            balanced == \A v, w \in conds :
                           Occurrences(labels, v, n) = Occurrences(labels, w, n)
            R == Occurrences(labels, labels[1], n)
            cv == result.value
        IN  /\ ~balanced => (result.status = "AssertionError_balance" /\ cv = <<>>)
            /\ balanced =>
                 /\ result.status = "ok"
                 /\ Len(cv) = n
                 /\ \A p \in 1..n : cv[p] = Occurrences(labels, labels[p], p) - 1
                 /\ \A r \in 0..(R - 1), v \in conds :
                       Cardinality({p \in 1..n : labels[p] = v /\ cv[p] = r}) = 1

C5_Witness ==
    /\ call.fn = "_gen_default_cv_descriptor"
    /\ dataset.obs_descriptors["cond"] = <<1, 1, 1, 2, 2, 2>>
    /\ result.status = "ok"
    /\ result.value = <<0, 1, 2, 0, 1, 2>>

C5_WitnessUnbalanced ==
    /\ call.fn = "_gen_default_cv_descriptor"
    /\ dataset.obs_descriptors["cond"] = <<1, 1, 2>>
    /\ result.status = "AssertionError_balance"

(***************************************************************************)
(* Specification SpecNoise: _check_noise applied to noise objects of       *)
(* every shape, nested to depth two, for one and two channels.             *)
(***************************************************************************)
MaxNoiseLen == 2   \* items of a noise list, tuple or dict

NoiseLeaves == {None, Eye1, Eye2, Prec2, Wide, Scalar}
NoiseKeys == {0, 1, 2, 5}


Containers(S) ==
    {[kind |-> k, items |-> its] : k \in {"list", "tuple"}, its \in SeqsUpTo(S, MaxNoiseLen)}
    \cup {[kind |-> "dict", keys |-> ks, items |-> its] :
             <<ks, its>> \in {p \in SeqsUpTo(NoiseKeys, MaxNoiseLen) \X SeqsUpTo(S, MaxNoiseLen) :
                                 Len(p[1]) = Len(p[2]) /\ Injective(p[1])}}

NestedSample ==
    {[kind |-> "list", items |-> <<Eye2>>], [kind |-> "tuple", items |-> <<Eye2>>],
     [kind |-> "dict", keys |-> <<5>>, items |-> <<Eye2>>],
     [kind |-> "list", items |-> <<Wide>>],
     [kind |-> "ndarray", ndim |-> 3, items |-> <<Eye2, Prec2>>],
     [kind |-> "ndarray", ndim |-> 1, items |-> <<Scalar, Scalar>>]}

NoiseObjects == NoiseLeaves \cup NestedSample \cup Containers(NoiseLeaves)
                  \cup {[kind |-> "list", items |-> its] :
                           its \in SeqsUpTo(NoiseLeaves \cup NestedSample, MaxNoiseLen)}

InitNoise ==
    /\ dataset = None
    /\ orig = None
    /\ noise \in NoiseObjects
    /\ call = NoCall
    /\ result = NoResult

\* noise = _check_noise(noise, n_channel); the caller's object is the one
\* the loop assigns into
CheckNoiseCall ==
    /\ call.fn = "init"
    /\ \E n_channel \in {1, 2} :
         LET r == _check_noise(noise, n_channel)
         IN  /\ call' = [fn |-> "_check_noise", noise |-> noise, n_channel |-> n_channel]
             /\ result' = [status |-> r.status,
                           value |-> IF r.status = "ok" THEN r.noise ELSE None]
             /\ noise' = r.noise
    /\ UNCHANGED <<dataset, orig>>

NextNoise == CheckNoiseCall

SpecNoise == InitNoise /\ [][NextNoise]_vars

\* the leaves of a noise specification: absent, matrices, other values
IsContainer(ns) == ns.kind \in {"list", "tuple", "dict"} \/ (ns.kind = "ndarray" /\ ns.ndim # 2)

RECURSIVE SomeLeaf(_, _, _)
SomeLeaf(ns, n, bad) ==
    IF IsContainer(ns) THEN \E p \in 1..Len(ns.items) : SomeLeaf(ns.items[p], n, bad)
    ELSE IF bad = "shape" THEN IsMatrix(ns) /\ ns.shape # <<n, n>>
    ELSE ns.kind = "scalar"

\* C6: _check_noise validates every leaf, for each of the shapes absent /
\* matrix / sequence / keyed mapping: it returns the specification when
\* every leaf matrix is n_channel x n_channel, raises the shape error when a
\* leaf has another shape and the type error for a value of another type,
\* also for a mapping with arbitrary keys and for an immutable sequence.
C6_CheckNoiseValidates ==
    call.fn = "_check_noise" =>
        LET badShape == SomeLeaf(call.noise, call.n_channel, "shape")
            badType == SomeLeaf(call.noise, call.n_channel, "type")
        IN  /\ (~badShape /\ ~badType) =>
                  (result.status = "ok" /\ result.value = call.noise)
            /\ (badShape /\ ~badType) => result.status = "AssertionError_shape"
            /\ (badType /\ ~badShape) => result.status = "ValueError_noise"
            /\ (badType /\ badShape) => result.status \in {"AssertionError_shape", "ValueError_noise"}

(***************************************************************************)
(* Specification SpecDiff: _calc_pairwise_differences applied to the       *)
(* matrices of up to MaxObs rows and one or two columns.                    *)
(***************************************************************************)
DiffVals == {0, 1, 2}
DiffWidths == {1, 2}

IntMatrices(n, m, vals) == [1..n -> [1..m -> vals]]

InitDiff ==
    /\ dataset = None
    /\ noise = None
    /\ orig = None
    /\ call = NoCall
    /\ result = NoResult

PairwiseCall ==
    /\ call.fn = "init"
    /\ \E n \in 0..MaxObs, m \in DiffWidths :
         \E mat \in IntMatrices(n, m, DiffVals) :
            /\ call' = [fn |-> "_calc_pairwise_differences",
                        measurements |-> Arr(QMat(mat), m)]
            /\ result' = _calc_pairwise_differences(Arr(QMat(mat), m))
    /\ UNCHANGED <<dataset, noise, orig>>

NextDiff == PairwiseCall

SpecDiff == InitDiff /\ [][NextDiff]_vars

\* C2: on a C x M matrix _calc_pairwise_differences returns, without error,
\* a C(C-1)/2 x M matrix whose row for the pair (i, j) is row i minus row j,
\* the pairs in the canonical order; for C = 0 and C = 1 it has no rows.
C2_PairwiseDifferences ==
    call.fn = "_calc_pairwise_differences" =>
        LET inp == call.measurements
            C == inp.shape[1]
            out == result.value
        IN  /\ result.status = "ok"
            /\ out.shape = <<(C * (C - 1)) \div 2, inp.shape[2]>>
            /\ Len(out.rows) = (C * (C - 1)) \div 2
            /\ (C <= 1 => out.rows = <<>>)
            /\ \A i \in 1..C, j \in 1..C :
                 i < j => out.rows[PairIndex(i, j, C)] = VSub(inp.rows[i], inp.rows[j])

C2_Witness ==
    /\ call.fn = "_calc_pairwise_differences"
    /\ call.measurements.shape = <<3, 2>>
    /\ call.measurements.rows = QMat(<<<<0, 1>>, <<2, 0>>, <<1, 1>>>>)
    /\ result.status = "ok"
    /\ result.value.rows = QMat(<<<<-2, 1>>, <<-1, 0>>, <<1, -1>>>>)

(***************************************************************************)
(* Specification SpecColl: calc_rdm called on a collection of up to        *)
(* MaxColl datasets, with no noise, one matrix, or a noise per element.    *)
(***************************************************************************)
List(items) == [kind |-> "list", items |-> items]

CollDatasets ==
    {DatasetOf(obs) : obs \in
        {<<[row |-> <<0, 0>>, cond |-> 1, fold |-> 0], [row |-> <<1, 0>>, cond |-> 2, fold |-> 0]>>,
         <<[row |-> <<2, 2>>, cond |-> 1, fold |-> 1], [row |-> <<1, 0>>, cond |-> 2, fold |-> 0],
           [row |-> <<0, 0>>, cond |-> 1, fold |-> 0], [row |-> <<1, 1>>, cond |-> 2, fold |-> 1]>>,
         <<[row |-> <<3, 1>>, cond |-> 3, fold |-> 0], [row |-> <<1, 0>>, cond |-> 2, fold |-> 0],
           [row |-> <<0, 0>>, cond |-> 1, fold |-> 0]>>}}

CollNoises == {None, Prec2, List(<<Eye2Half, Prec2, Eye2>>), List(<<Eye2, Eye1>>), List(<<Prec2>>)}

CollArgs ==
    {a \in [method : Methods, descriptor : {NoKey, "cond"}, noise : CollNoises,
            cv_descriptor : {NoKey, "fold"}] :
        /\ a.method \notin {"mahalanobis", "crossnobis"} => a.noise \in {None, Prec2}
        /\ a.method \notin {"crossnobis", "crosseuclid", "poisson_cv"}
              => a.cv_descriptor = NoKey
        /\ a.descriptor = NoKey => a.method \in {"euclidean", "mahalanobis"}}

InitColl ==
    /\ \E n \in 1..MaxColl : \E items \in [1..n -> CollDatasets] : dataset = List(items)
    /\ orig = dataset
    /\ noise = None
    /\ call = NoCall
    /\ result = NoResult

CollectionCall ==
    /\ call.fn = "init"
    /\ \E a \in CollArgs :
        \E r \in {calc_rdm(dataset, a.method, a.descriptor, a.noise, a.cv_descriptor,
                           PriorLambdaDefault, PriorWeightDefault)} :
            /\ call' = [fn |-> "calc_rdm", method |-> a.method,
                        descriptor |-> a.descriptor, noise |-> a.noise,
                        cv_descriptor |-> a.cv_descriptor, before |-> dataset]
            /\ result' = [status |-> r.status, rdm |-> r.rdm]
            /\ dataset' = r.dataset
            /\ noise' = r.noise
            /\ UNCHANGED orig

NextColl == CollectionCall

SpecColl == InitColl /\ [][NextColl]_vars

\* the noise the last call's element i (from 1) is to be computed with
NoiseOfElement(i) ==
    IF call.noise = None THEN None
    ELSE IF call.noise.kind = "ndarray" THEN call.noise
    ELSE call.noise.items[i]

\* what calc_rdm gives for element i of the last call's collection on its own
ElementResult(i) ==
    calc_rdm(call.before.items[i], call.method, call.descriptor, NoiseOfElement(i),
             call.cv_descriptor, PriorLambdaDefault, PriorWeightDefault)

\* the results for the elements 1 to k
RECURSIVE ElementResults(_)
ElementResults(k) == IF k = 0 THEN <<>> ELSE Append(ElementResults(k - 1), ElementResult(k))

\* C8: calc_rdm on a collection of n datasets returns the concatenation, in
\* element order, of what calc_rdm gives for each element with the same
\* arguments, element i computed without noise, with the one matrix, or with
\* noise[i]; when an element's call raises, so does the call on the collection.
C8_CollectionConcatenates ==
    (call.fn = "calc_rdm" /\ IsCollection(call.before)
        /\ (call.noise.kind = "list" => Len(call.noise.items) >= Len(call.before.items))) =>
        \A each \in {ElementResults(Len(call.before.items))} :
            LET n == Len(each)
                failed == {i \in 1..n : each[i].status # "ok"}
            IN  IF failed = {}
                THEN /\ result.status = "ok"
                     /\ Len(result.rdm.dissimilarities) = n
                     /\ \A i \in 1..n :
                           result.rdm.dissimilarities[i] = each[i].rdm.dissimilarities[1]
                     /\ result.rdm = concat([i \in 1..n |-> each[i].rdm])
                ELSE result.status =
                        each[CHOOSE i \in failed : \A j \in failed : i <= j].status

C8_Witness ==
    /\ call.fn = "calc_rdm"
    /\ call.method = "mahalanobis"
    /\ call.noise = List(<<Eye2Half, Prec2, Eye2>>)
    /\ Len(call.before.items) = 2
    /\ call.before.items[1] = call.before.items[2]
    /\ result.status = "ok"
    /\ result.rdm.dissimilarities[1] # result.rdm.dissimilarities[2]

(***************************************************************************)
(* Specification SpecMovie: calc_rdm_movie called on a temporal dataset of *)
(* up to MaxTime time samples, or on a collection of up to MaxColl of      *)
(* them, with and without bins.                                            *)
(***************************************************************************)
MaxTime == 3   \* time samples of a temporal dataset

TimeLines == {<<0, 1, 2, 3>>, <<2, 0, 3, 1>>}

\* four observations (two conditions, two folds) of two channels over T
\* time samples
TemporalSample(T, times, p) ==
    TemporalDataset(
        [o \in 1..4 |-> [c \in 1..2 |-> [t \in 1..T |-> Q((o * p + c * t + o * t * t) % 3)]]],
        2,
        [cond |-> <<1, 2, 1, 2>>, fold |-> <<0, 0, 1, 1>>],
        [time |-> [t \in 1..T |-> Q(times[t])],
         onset |-> [t \in 1..T |-> Q(times[t] + 10)]])

TemporalSamples ==
    {TemporalSample(T, times, p) : T \in 1..(IF MaxTime < 4 THEN MaxTime ELSE 4),
                                   times \in TimeLines, p \in {1, 2}}

MovieElements == {TemporalSample(T, <<2, 0, 3, 1>>, T) : T \in 1..2}

\* the bins a caller may pass: None, or groups of time values of the
\* descriptor; every bin holds a time of the dataset
BinChoices(tds, time_descriptor) ==
    LET time == tds.time_descriptors[time_descriptor]
        T == Len(time)
    IN  {None} \cup
        {List(<<{time[t] : t \in 1..T}>>)} \cup
        (IF T >= 2 THEN {List(<<{time[T]}, {time[t] : t \in 1..(T - 1)}>>)} ELSE {})

MovieMethods == {"euclidean", "correlation", "mahalanobis", "crossnobis", "poisson", "poisson_cv"}

MovieArgs ==
    {a \in [method : MovieMethods, noise : {None, Prec2, List(<<Eye2, Prec2>>)},
            cv_descriptor : {NoKey, "fold"}, prior_lambda : {Q(1), Q(2)},
            time_descriptor : {"time", "onset"}] :
        /\ a.method \notin {"mahalanobis", "crossnobis"} => a.noise = None
        /\ a.method \notin {"crossnobis", "poisson_cv"} => a.cv_descriptor = NoKey
        /\ a.method \notin {"poisson", "poisson_cv"} => a.prior_lambda = Q(1)}

InitMovie ==
    /\ \/ dataset \in TemporalSamples
       \/ \E n \in 1..MaxColl : \E items \in [1..n -> MovieElements] : dataset = List(items)
    /\ orig = dataset
    /\ noise = None
    /\ call = NoCall
    /\ result = NoResult

MovieCall ==
    /\ call.fn = "init"
    /\ \E a \in MovieArgs :
       \E bins \in BinChoices(IF IsCollection(dataset) THEN dataset.items[1] ELSE dataset,
                              a.time_descriptor) :
        \E r \in {calc_rdm_movie(dataset, a.method, "cond", a.noise, a.cv_descriptor,
                                 a.prior_lambda, PriorWeightDefault, a.time_descriptor,
                                 bins)} :
            /\ IsCollection(dataset) \/ a.noise.kind # "list"
            /\ call' = [fn |-> "calc_rdm_movie", method |-> a.method, descriptor |-> "cond",
                        noise |-> a.noise, cv_descriptor |-> a.cv_descriptor,
                        prior_lambda |-> a.prior_lambda, time_descriptor |-> a.time_descriptor,
                        bins |-> bins, before |-> dataset]
            /\ result' = [status |-> r.status, rdm |-> r.rdm]
            /\ dataset' = r.dataset
            /\ noise' = r.noise
            /\ UNCHANGED orig

NextMovie == MovieCall

SpecMovie == InitMovie /\ [][NextMovie]_vars

\* what calc_rdm_movie gives for element i of the last call's collection
\* with the arguments of that call
ElementMovie(i) ==
    calc_rdm_movie(call.before.items[i], call.method, call.descriptor, NoiseOfElement(i),
                   call.cv_descriptor, call.prior_lambda, PriorWeightDefault,
                   call.time_descriptor, call.bins)

RECURSIVE ElementMovies(_)
ElementMovies(k) == IF k = 0 THEN <<>> ELSE Append(ElementMovies(k - 1), ElementMovie(k))

\* C9: calc_rdm_movie on a collection equals the concatenation, in order,
\* of calc_rdm_movie(element, same arguments): every element's movie is
\* computed with the caller's cv_descriptor, prior_lambda, prior_weight,
\* time_descriptor and bins.
C9_MovieCollectionSameCall ==
    (call.fn = "calc_rdm_movie" /\ IsCollection(call.before)) =>
        \A each \in {ElementMovies(Len(call.before.items))} :
            LET n == Len(each)
                failed == {i \in 1..n : each[i].status # "ok"}
            IN  IF failed = {}
                THEN /\ result.status = "ok"
                     /\ result.rdm = concat([i \in 1..n |-> each[i].rdm])
                ELSE result.status =
                        each[CHOOSE i \in failed : \A j \in failed : i <= j].status

\* the time samples of the k-th bin of the last call, and its
\* representative time: the sample's own time, or the mean of the times of
\* the samples in a caller's bin
BinSamples(k) ==
    IF call.bins = None THEN <<k>>
    ELSE IndicesIn(call.before.time_descriptors[call.time_descriptor], call.bins.items[k], 1)

RepresentativeTime(k) ==
    LET time == call.before.time_descriptors[call.time_descriptor]
        idx == BinSamples(k)
    IN  RDiv(Sum([q \in 1..Len(idx) |-> time[idx[q]]]), Q(Len(idx)))

\* the dataset of the k-th bin: every measurement the mean over the bin
BinDataset(k) ==
    LET m == call.before.measurements
        idx == BinSamples(k)
    IN  [o \in 1..Len(m) |-> [c \in 1..call.before.n_channel |->
            RDiv(Sum([q \in 1..Len(idx) |-> m[o][c][idx[q]]]), Q(Len(idx)))]]

NumBins ==
    IF call.bins = None THEN n_time(call.before) ELSE Len(call.bins.items)

\* C10: calc_rdm_movie on one temporal dataset with N bins (its time
\* samples, or the caller's bins) returns exactly N RDMs in bin order, the
\* k-th computed from the k-th bin and stamped with its representative time.
C10_MovieBins ==
    (call.fn = "calc_rdm_movie" /\ ~IsCollection(call.before) /\ result.status = "ok") =>
        /\ Len(result.rdm.dissimilarities) = NumBins
        /\ Len(result.rdm.rdm_descriptors[call.time_descriptor]) = NumBins
        /\ \A k \in 1..NumBins :
              /\ result.rdm.rdm_descriptors[call.time_descriptor][k] = RepresentativeTime(k)
              /\ \A m \in {BinDataset(k)} :
                 \A r \in {calc_rdm(Dataset(m, call.before.n_channel,
                                            call.before.obs_descriptors),
                                    call.method, call.descriptor, call.noise,
                                    call.cv_descriptor, call.prior_lambda,
                                    PriorWeightDefault)} :
                    result.rdm.dissimilarities[k] = r.rdm.dissimilarities[1]

C10_Witness ==
    /\ call.fn = "calc_rdm_movie"
    /\ ~IsCollection(call.before)
    /\ n_time(call.before) = 3
    /\ call.bins # None
    /\ call.time_descriptor = "time"
    /\ result.status = "ok"
    /\ Len(result.rdm.dissimilarities) = 2
    /\ result.rdm.rdm_descriptors["time"] = <<Q(3), Q(1)>>

C10_WitnessUnbinned ==
    /\ call.fn = "calc_rdm_movie"
    /\ ~IsCollection(call.before)
    /\ call.bins = None
    /\ call.time_descriptor = "onset"
    /\ result.status = "ok"
    /\ result.rdm.rdm_descriptors["onset"] = <<Q(12), Q(10), Q(13)>>


(***************************************************************************)
(* Specification SpecAlias: one calc_rdm call, and then the caller changes *)
(* descriptors of the result and of the dataset.  Python dictionaries are  *)
(* objects: where the result holds the dataset's own dictionary            *)
(* (shares_descriptors), a change through one is a change of both.         *)
(***************************************************************************)
AliasArgs ==
    {a \in CallArgs : a.descriptor = "cond" /\ a.cv_descriptor = NoKey
                      /\ a.noise \in {None, Prec2}}

DescriptorKeys == {"session", "subject"}
DescriptorValues == {2, 3}

InitAlias ==
    /\ dataset \in CollDatasets
    /\ orig = dataset
    /\ noise = None
    /\ call = NoCall
    /\ result = NoResult

\* the call; the call record keeps the descriptors as the caller knows them
AliasCall ==
    /\ call.fn = "init"
    /\ \E a \in AliasArgs :
       \E r \in {calc_rdm(dataset, a.method, a.descriptor, a.noise, a.cv_descriptor,
                          PriorLambdaDefault, PriorWeightDefault)} :
            /\ r.status = "ok"
            /\ call' = [fn |-> "calc_rdm", method |-> a.method,
                        descriptor |-> a.descriptor, noise |-> a.noise,
                        cv_descriptor |-> a.cv_descriptor, before |-> dataset,
                        dataset_descriptors |-> r.dataset.descriptors,
                        rdm_descriptors |-> r.rdm.rdm_descriptors,
                        descriptors |-> r.rdm.descriptors]
            /\ result' = [status |-> r.status, rdm |-> r.rdm]
            /\ dataset' = r.dataset
            /\ noise' = r.noise
            /\ UNCHANGED orig

\* rdm.rdm_descriptors[key] = [v]
ChangeRdmDescriptors ==
    /\ call.fn # "init"
    /\ \E key \in DescriptorKeys, v \in DescriptorValues :
        /\ result' = [result EXCEPT !.rdm.rdm_descriptors = SetItem(@, key, <<v>>)]
        /\ call' = [call EXCEPT !.fn = "change_rdm_descriptors",
                                !.rdm_descriptors = SetItem(@, key, <<v>>)]
    /\ UNCHANGED <<dataset, noise, orig>>

\* rdm.descriptors[key] = v
ChangeResultDescriptors ==
    /\ call.fn # "init"
    /\ \E key \in DescriptorKeys, v \in DescriptorValues :
        /\ result' = [result EXCEPT !.rdm.descriptors = SetItem(@, key, v)]
        /\ dataset' = IF result.rdm.shares_descriptors
                      THEN [dataset EXCEPT !.descriptors = SetItem(@, key, v)]
                      ELSE dataset
        /\ call' = [call EXCEPT !.fn = "change_result_descriptors",
                                !.descriptors = SetItem(@, key, v)]
    /\ UNCHANGED <<noise, orig>>

\* dataset.descriptors[key] = v
ChangeDatasetDescriptors ==
    /\ call.fn # "init"
    /\ \E key \in DescriptorKeys, v \in DescriptorValues :
        /\ dataset' = [dataset EXCEPT !.descriptors = SetItem(@, key, v)]
        /\ result' = IF result.rdm.shares_descriptors
                     THEN [result EXCEPT !.rdm.descriptors = SetItem(@, key, v)]
                     ELSE result
        /\ call' = [call EXCEPT !.fn = "change_dataset_descriptors",
                                !.dataset_descriptors = SetItem(@, key, v)]
    /\ UNCHANGED <<noise, orig>>

NextAlias ==
    \/ AliasCall
    \/ ChangeRdmDescriptors
    \/ ChangeResultDescriptors
    \/ ChangeDatasetDescriptors

SpecAlias == InitAlias /\ [][NextAlias]_vars

\* C12: for every estimator the result's RDM-level descriptors hold a copy
\* of the dataset's descriptors: right after the call every descriptor of
\* the dataset is an RDM-level descriptor of the result, and afterwards a
\* change of the result's descriptors never changes the dataset's, nor a
\* change of the dataset's the result's.
C12_DescriptorsCopied ==
    call.fn # "init" =>
        /\ call.fn = "calc_rdm" =>
              \A k \in DOMAIN dataset.descriptors :
                  /\ k \in DOMAIN result.rdm.rdm_descriptors
                  /\ result.rdm.rdm_descriptors[k] = <<dataset.descriptors[k]>>
        /\ dataset.descriptors = call.dataset_descriptors
        /\ result.rdm.rdm_descriptors = call.rdm_descriptors
        /\ result.rdm.descriptors = call.descriptors

\* the second half of C12 alone: changes through one object never show in
\* the other
C12_Independent ==
    call.fn # "init" =>
        /\ dataset.descriptors = call.dataset_descriptors
        /\ result.rdm.descriptors = call.descriptors
        /\ result.rdm.rdm_descriptors = call.rdm_descriptors

\* C12 for the estimators that pass deepcopy(dataset.descriptors) as
\* rdm_descriptors: all but correlation_cv
C12_CopiedExceptCorrelationCv ==
    (call.fn # "init" /\ call.method # "correlation_cv") => C12_DescriptorsCopied


(***************************************************************************)
(* Specification SpecFold: one call of calc_rdm_crossnobis or of           *)
(* calc_rdm_poisson_cv on a dataset of up to MaxFoldObs observations of up *)
(* to three conditions in up to three folds, in one of three orders.       *)
(***************************************************************************)
MaxFoldObs == 6   \* observations of a dataset in SpecFold

FoldObservations ==
    <<[row |-> <<0, 0>>, cond |-> 1, fold |-> 0],
      [row |-> <<1, 0>>, cond |-> 2, fold |-> 0],
      [row |-> <<0, 1>>, cond |-> 1, fold |-> 1],
      [row |-> <<1, 1>>, cond |-> 2, fold |-> 1],
      [row |-> <<2, 2>>, cond |-> 1, fold |-> 2],
      [row |-> <<3, 1>>, cond |-> 2, fold |-> 2],
      [row |-> <<4, 3>>, cond |-> 3, fold |-> 0]>>

\* the orders in which the chosen observations are stored
FoldOrders == {<<1, 2, 3, 4, 5, 6, 7>>, <<7, 6, 5, 4, 3, 2, 1>>, <<4, 7, 1, 6, 3, 2, 5>>}

\* the observations numbered in idx, in the given order
RECURSIVE PickObservations(_, _, _)
PickObservations(order, idx, k) ==
    IF k > Len(order) THEN <<>>
    ELSE (IF order[k] \in idx THEN <<FoldObservations[order[k]]>> ELSE <<>>)
             \o PickObservations(order, idx, k + 1)

\* a precision that is not symmetric: noise . v and v . noise differ
Skew == Matrix(QMat(<<<<1, 1>>, <<0, 1>>>>), 2, 2)
FoldNoises == {None, Prec2, Skew}

InitFold ==
    /\ \E idx \in SUBSET (1..Len(FoldObservations)), order \in FoldOrders :
          /\ Cardinality(idx) \in 1..MaxFoldObs
          /\ dataset = DatasetOf(PickObservations(order, idx, 1))
    /\ orig = dataset
    /\ noise = None
    /\ call = NoCall
    /\ result = NoResult

CrossnobisCall ==
    /\ call.fn = "init"
    /\ \E descriptor \in {NoKey, "cond"}, ns \in FoldNoises, cv_descriptor \in {NoKey, "fold"} :
        \E r \in {calc_rdm_crossnobis(dataset, descriptor, ns, cv_descriptor)} :
            /\ call' = [fn |-> "calc_rdm_crossnobis", descriptor |-> descriptor,
                        noise |-> ns, cv_descriptor |-> cv_descriptor, before |-> dataset]
            /\ result' = [status |-> r.status, rdm |-> r.rdm]
            /\ dataset' = r.dataset
            /\ noise' = r.noise
            /\ UNCHANGED orig

PoissonCvCall ==
    /\ call.fn = "init"
    /\ \E descriptor \in {NoKey, "cond"}, cv_descriptor \in {NoKey, "fold"} :
        \E r \in {calc_rdm_poisson_cv(dataset, descriptor, PriorLambdaDefault,
                                      PriorWeightDefault, cv_descriptor)} :
            /\ call' = [fn |-> "calc_rdm_poisson_cv", descriptor |-> descriptor,
                        noise |-> None, cv_descriptor |-> cv_descriptor, before |-> dataset]
            /\ result' = [status |-> r.status, rdm |-> r.rdm]
            /\ dataset' = r.dataset
            /\ noise' = r.noise
            /\ UNCHANGED orig

NextFold ==
    \/ CrossnobisCall
    \/ PoissonCvCall

SpecFold == InitFold /\ [][NextFold]_vars

\* the fold key of the last call, and the fold labels and condition labels
\* of the observations as the dataset holds them after the call
FoldKey == IF call.cv_descriptor = NoKey THEN "cv_desc" ELSE call.cv_descriptor
FoldLabels == dataset.obs_descriptors[FoldKey]
CondLabels == dataset.obs_descriptors[call.descriptor]
AllFolds == Range(FoldLabels)

\* the observations of condition c in the folds S
ObsOf(S, c) == {p \in 1..Len(FoldLabels) : FoldLabels[p] \in S /\ CondLabels[p] = c}

\* the conditions with an observation in the folds S, increasing
CondsIn(S) == SortedSeq({CondLabels[p] : p \in {q \in 1..Len(FoldLabels) : FoldLabels[q] \in S}})

\* a function on 1..k as a tuple
RECURSIVE TupleOf(_, _)
TupleOf(f, k) == IF k = 0 THEN <<>> ELSE Append(TupleOf(f, k - 1), f[k])

\* the average over the observations of condition c in the folds S, channel m
FoldAverage(S, c, m) ==
    RDiv(Sum([p \in 1..Len(FoldLabels) |->
                 IF p \in ObsOf(S, c) THEN dataset.measurements[p][m] ELSE Q(0)]),
         Q(Cardinality(ObsOf(S, c))))

\* the patterns of the folds S: one row of channel averages per condition
\* with an observation in S, in increasing order of the condition label
FoldPatterns(S) ==
    LET conds == CondsIn(S)
        M == dataset.n_channel
    IN  TupleOf([i \in 1..Len(conds) |->
                    TupleOf([m \in 1..M |-> FoldAverage(S, conds[i], m)], M)], Len(conds))

\* noise[m][n], the identity when noise is absent
NoiseEntry(m, n) ==
    IF call.noise = None THEN Q(IF m = n THEN 1 ELSE 0) ELSE call.noise.rows[m][n]

\* (1/n_channel) * diff_train(i,j) . (noise . diff_test(i,j)) for the
\* training patterns train and the test patterns test
FoldEstimate(train, test, i, j) ==
    LET M == dataset.n_channel
        diff_train == TupleOf([m \in 1..M |-> RSub(train[i][m], train[j][m])], M)
        diff_test == TupleOf([m \in 1..M |-> RSub(test[i][m], test[j][m])], M)
    IN  RDiv(Sum([m \in 1..M |->
                    RMul(diff_train[m],
                         Sum([n \in 1..M |-> RMul(NoiseEntry(m, n), diff_test[n])]))]),
             Q(M))

\* every condition has an observation in every fold
Balanced == \A f \in AllFolds, c \in Range(CondLabels) : ObsOf({f}, c) # {}

C13_WitnessMissingCondition ==
    /\ call.fn = "calc_rdm_crossnobis" /\ result.status = "ok"
    /\ call.cv_descriptor = "fold" /\ ~Balanced
    /\ Cardinality(Range(CondLabels)) = 3
    /\ Len(result.rdm.dissimilarities[1].rows) = 1

\* the default folds: two conditions twice each, no noise
C13_WitnessDefaultFolds ==
    /\ call.fn = "calc_rdm_crossnobis" /\ result.status = "ok"
    /\ call.noise = None /\ call.cv_descriptor = NoKey
    /\ Cardinality(AllFolds) = 2 /\ Balanced
    /\ Len(result.rdm.dissimilarities[1].rows) = 1


\* the i-th pair (from 1) of 1..n in canonical order
PairAt(k, n) ==
    CHOOSE p \in (1..n) \X (1..n) : p[1] < p[2] /\ PairIndex(p[1], p[2], n) = k

NumPairs(n) == (n * (n - 1)) \div 2

\* (x + prior_lambda * prior_weight) / (1 + prior_weight) with the defaults
\* prior_lambda = 1, prior_weight = 0.1
Shrunk(x) == RDiv(RAdd(x, RMul(PriorLambdaDefault, PriorWeightDefault)), RAdd(Q(1), PriorWeightDefault))

\* the estimate of one split for the pair tp of training patterns and the
\* pair ep of test patterns: the mean over the channels of the difference
\* of the shrunk training averages times the difference of the logarithms
\* of the shrunk test averages
PoissonEstimate(train, test, tp, ep) ==
    LET M == dataset.n_channel
    IN  Div(Sum([m \in 1..M |->
                   Mul(RSub(Shrunk(train[tp[1]][m]), Shrunk(train[tp[2]][m])),
                       Sub(Log(Shrunk(test[ep[1]][m])), Log(Shrunk(test[ep[2]][m]))))]),
            Q(M))

\* the estimates of the split whose test fold is f, one per pair; a side
\* with a single pair is repeated against every pair of the other side
SplitEstimates(f) ==
    LET train == FoldPatterns(AllFolds \ {f})
        test == FoldPatterns({f})
        nt == NumPairs(Len(train))
        ne == NumPairs(Len(test))
        n == IF nt = 1 THEN ne ELSE nt
    IN  TupleOf([k \in 1..n |->
                    PoissonEstimate(train, test,
                                    PairAt(IF nt = 1 THEN 1 ELSE k, Len(train)),
                                    PairAt(IF ne = 1 THEN 1 ELSE k, Len(test)))], n)

LastFold == CHOOSE f \in AllFolds : \A g \in AllFolds : g <= f

\* C14: calc_rdm_poisson_cv with F >= 2 folds returns the estimate of one
\* split only, the one whose test fold is the last fold label in sorted
\* order and whose training set is all other folds (linear term from the
\* shrunk training averages, log term from the shrunk test averages); what
\* the other folds' splits give does not enter the result.  With every
\* condition in every fold there is one value per pair of conditions.
C14_PoissonCvLastFoldOnly ==
    (call.fn = "calc_rdm_poisson_cv" /\ result.status = "ok" /\ Cardinality(AllFolds) >= 2) =>
        /\ Len(result.rdm.dissimilarities) = 1
        /\ result.rdm.dissimilarities[1].rows = SplitEstimates(LastFold)
        /\ Balanced => Len(result.rdm.dissimilarities[1].rows) =
                           NumPairs(Cardinality(Range(CondLabels)))

\* three folds of two conditions: the result is the estimate of the split
\* with fold 2 as test set; the splits testing on fold 0 and on fold 1 give
\* other values
C14_Witness ==
    /\ call.fn = "calc_rdm_poisson_cv" /\ result.status = "ok"
    /\ call.cv_descriptor = "fold" /\ AllFolds = {0, 1, 2} /\ Balanced
    /\ result.rdm.dissimilarity_measure = "poisson_cv"
    /\ Len(result.rdm.dissimilarities[1].rows) = 1
    /\ result.rdm.dissimilarities[1].rows = SplitEstimates(2)
    /\ result.rdm.dissimilarities[1].rows # SplitEstimates(0)
    /\ result.rdm.dissimilarities[1].rows # SplitEstimates(1)

\* the default folds, two of them: the result is the estimate testing on
\* fold 1, not the one testing on fold 0
C14_WitnessDefaultFolds ==
    /\ call.fn = "calc_rdm_poisson_cv" /\ result.status = "ok"
    /\ call.cv_descriptor = NoKey /\ AllFolds = {0, 1} /\ Balanced
    /\ Cardinality(Range(CondLabels)) = 2
    /\ result.rdm.dissimilarities[1].rows = SplitEstimates(1)
    /\ result.rdm.dissimilarities[1].rows # SplitEstimates(0)

============================================================================
